---------------------------- MODULE Spec2Model ----------------------------
(***************************************************************************)
(* The resolution engine of the RAINS server (package rainsd, engine.go):  *)
(* assert / query / reapEngine over the assertion cache, the negative      *)
(* assertion cache and the pending query cache.                            *)
(*                                                                         *)
(* Times are unix seconds.  Tokens are small naturals, 0 is the all-zero   *)
(* token [16]byte{}.  Names are sequences of one-character strings.        *)
(***************************************************************************)
EXTENDS Integers, Sequences, FiniteSets, TLC

---------------------------------------------------------------------------
(* Bounds of the model *)

\* the clock runs from 1 to MaxNow
MaxNow == 2

\* validity bounds handed to UpdateSectionValidity lie in now..now + MaxOffset
MaxOffset == 4

\* names handed to getZoneAndName have at most MaxNameLen characters
MaxNameLen == 5

\* slices handed to NewNotificationsMessage have at most MaxSlice elements
MaxSlice == 2

---------------------------------------------------------------------------
(* Server configuration: the fields of Config *)

MaxCacheAssertionValidity == 1
MaxCacheShardValidity == 2
MaxCacheZoneValidity == 3
AssertionQueryValidity == 1
AssertionCacheSize == 2
NegativeAssertionCacheSize == 2
PendingQueryCacheSize == 2

\* rainslib object types
OTName == 1
OTIP6Addr == 2
OTIP4Addr == 3
OTDelegation == 5
OTServiceInfo == 8

\* the all-zero token [16]byte{} handed to contained sections
ZeroToken == 0

Tokens == {0, 1}

serverConnInfo == "self"
rootConnInfo == "root"

CachedAnswersOnly == "CachedAnswersOnly"
ExpiredAssertionsOk == "ExpiredAssertionsOk"
TokenTracing == "TokenTracing"

NoAssertionAvail == "NoAssertionAvail"
UnspecServerErr == "UnspecServerErr"
ServerNotCapable == "ServerNotCapable"

GlobalContext == "."

---------------------------------------------------------------------------
(* Strings *)

Str_c == <<"c">>
Str_s == <<"s">>
Str_a == <<"a">>
Str_b == <<"b">>
Str_empty == <<>>

CharCode(ch) ==
    CASE ch = "." -> 0
      [] ch = "a" -> 1
      [] ch = "b" -> 2
      [] ch = "c" -> 3
      [] OTHER -> 4

RECURSIVE StrLess(_, _)
StrLess(s, t) ==
    IF t = <<>> THEN FALSE
    ELSE IF s = <<>> THEN TRUE
    ELSE IF CharCode(Head(s)) < CharCode(Head(t)) THEN TRUE
    ELSE IF CharCode(Head(s)) > CharCode(Head(t)) THEN FALSE
    ELSE StrLess(Tail(s), Tail(t))

\* strings.Split(name, ".")
RECURSIVE Split(_)
Split(s) ==
    LET dots == {i \in 1..Len(s) : s[i] = "."}
    IN  IF dots = {} THEN <<s>>
        ELSE LET i == CHOOSE k \in dots : \A j \in dots : k <= j
             IN  <<SubSeq(s, 1, i - 1)>> \o Split(SubSeq(s, i + 1, Len(s)))

\* strings.Join(labels, ".")
RECURSIVE Join(_)
Join(labels) ==
    IF Len(labels) = 0 THEN <<>>
    ELSE IF Len(labels) = 1 THEN labels[1]
    ELSE labels[1] \o <<".">> \o Join(Tail(labels))

\* mutant: the zone is the second label, not all labels after the first
getZoneAndName_SecondLabel(name) ==
    LET names == Split(name)
    IN  <<[zone |-> IF Len(names) > 1 THEN names[2] ELSE <<>>, name |-> names[1]]>>

\* getZoneAndName: the first label is the name, the rest the zone
getZoneAndName(name) ==
    LET names == Split(name)
    IN  <<[zone |-> Join(Tail(names)), name |-> names[1]]>>

---------------------------------------------------------------------------
(* Sequence helpers *)

RemoveAt(s, i) == SubSeq(s, 1, i - 1) \o SubSeq(s, i + 1, Len(s))

Range(s) == {s[i] : i \in 1..Len(s)}

\* a set as a sequence, in a fixed order
RECURSIVE SetToSeq(_)
SetToSeq(S) ==
    IF S = {} THEN <<>>
    ELSE LET x == CHOOSE y \in S : TRUE
         IN  <<x>> \o SetToSeq(S \ {x})


Min(S) == CHOOSE k \in S : \A j \in S : k <= j

Max(S) == CHOOSE k \in S : \A j \in S : k >= j

---------------------------------------------------------------------------
(* Sections.  validFrom / validUntil are what section.ValidFrom() and      *)
(* section.ValidUntil() return.                                            *)

Obj(t) == [Type |-> t]

AssertionSection(name, content, from, until) ==
    [kind |-> "Assertion", Context |-> GlobalContext, SubjectZone |-> Str_c,
     SubjectName |-> name, Content |-> content,
     validFrom |-> from, validUntil |-> until]

ShardSection(rangeFrom, rangeTo, content, from, until) ==
    [kind |-> "Shard", Context |-> GlobalContext, SubjectZone |-> Str_c,
     RangeFrom |-> rangeFrom, RangeTo |-> rangeTo, Content |-> content,
     validFrom |-> from, validUntil |-> until]

ZoneSection(content, from, until) ==
    [kind |-> "Zone", Context |-> GlobalContext, SubjectZone |-> Str_c,
     Content |-> content, validFrom |-> from, validUntil |-> until]

\* the assertions a shard or zone contains, directly or inside a shard
ContainedAssertions(sec) ==
    IF sec.kind = "Shard" THEN Range(sec.Content)
    ELSE {x \in Range(sec.Content) : x.kind = "Assertion"}
         \cup UNION {Range(x.Content) : x \in {y \in Range(sec.Content) : y.kind = "Shard"}}

\* a zone covers every name, a shard the names strictly inside its range
\* (an empty bound is infinite)
Covers(sec, point) ==
    \/ sec.kind = "Zone"
    \/ /\ sec.kind = "Shard"
       /\ (sec.RangeFrom = <<>> \/ StrLess(sec.RangeFrom, point))
       /\ (sec.RangeTo = <<>> \/ StrLess(point, sec.RangeTo))

\* how specific a negative entry is: smaller is more specific
RangeRank(sec) ==
    IF sec.kind = "Zone" THEN 3
    ELSE IF sec.RangeFrom = <<>> /\ sec.RangeTo = <<>> THEN 2
    ELSE IF sec.RangeFrom = <<>> \/ sec.RangeTo = <<>> THEN 1
    ELSE 0

---------------------------------------------------------------------------
(* The assertion cache: a sequence of entries, least recently added first *)

assertionCacheAdd(cache, context, zone, name, otype, isAuthoritative, value, t) ==
    LET e == [context |-> context, zone |-> zone, name |-> name, otype |-> otype,
              authoritative |-> isAuthoritative, value |-> value]
        others == SelectSeq(cache, LAMBDA x : x # e)
        victims == {i \in 1..Len(others) : ~others[i].authoritative}
        expired == {i \in victims : others[i].value.validUntil < t}
    IN  IF Len(others) < AssertionCacheSize THEN Append(others, e)
        ELSE IF victims = {} THEN cache
        ELSE Append(RemoveAt(others, Min(IF expired # {} THEN expired ELSE victims)), e)

assertionCacheGet(cache, context, zone, name, otype, includeExpired, t) ==
    LET found == SelectSeq(cache, LAMBDA x :
                    /\ x.context = context /\ x.zone = zone
                    /\ x.name = name /\ x.otype = otype
                    /\ (includeExpired \/ x.value.validUntil >= t))
    IN  [assertions |-> [i \in 1..Len(found) |-> found[i].value.section],
         ok |-> Len(found) > 0]

assertionCacheRemoveExpiredValues(cache, t) ==
    SelectSeq(cache, LAMBDA x : x.value.validUntil >= t)

---------------------------------------------------------------------------
(* The negative assertion cache *)

negAssertionCacheAdd(cache, context, zone, isAuthoritative, value, t) ==
    LET e == [context |-> context, zone |-> zone,
              authoritative |-> isAuthoritative, value |-> value]
        others == SelectSeq(cache, LAMBDA x : x # e)
        victims == {i \in 1..Len(others) : ~others[i].authoritative}
        expired == {i \in victims : others[i].value.validUntil < t}
    IN  IF Len(others) < NegativeAssertionCacheSize THEN Append(others, e)
        ELSE IF victims = {} THEN cache
        ELSE Append(RemoveAt(others, Min(IF expired # {} THEN expired ELSE victims)), e)

negAssertionCacheGet(cache, context, zone, point) ==
    LET cand == {i \in 1..Len(cache) :
                    /\ cache[i].context = context /\ cache[i].zone = zone
                    /\ Covers(cache[i].value.section, point)}
        best == {i \in cand : \A j \in cand :
                    RangeRank(cache[i].value.section) <= RangeRank(cache[j].value.section)}
    IN  IF cand = {} THEN [ok |-> FALSE, section |-> <<>>]
        ELSE [ok |-> TRUE, section |-> cache[Max(best)].value.section]

negAssertionCacheRemoveExpiredValues(cache, t) ==
    SelectSeq(cache, LAMBDA x : x.value.validUntil >= t)

---------------------------------------------------------------------------
(* The pending query cache: a set of pendingQuerySetValue, keyed by the    *)
(* token of the value                                                      *)

pendingQueriesAdd(pq, value) ==
    IF value \notin pq /\ Cardinality(pq) >= PendingQueryCacheSize
    THEN [pq |-> pq, ok |-> FALSE]
    ELSE [pq |-> pq \cup {value}, ok |-> TRUE]

pendingQueriesGetAllAndDelete(pq, token) ==
    LET values == {v \in pq : v.token = token}
    IN  [values |-> values, pq |-> pq \ values, ok |-> values # {}]

pendingQueriesExpired(pq, t) == {v \in pq : v.validUntil < t}

---------------------------------------------------------------------------
(* The pending signature cache: sections blocked on a delegation *)

pendingSignaturesGetAllAndDelete(ps, context, zone) ==
    LET sections == {x \in ps : x.context = context /\ x.zone = zone}
    IN  [sections |-> sections, ps |-> ps \ sections, ok |-> sections # {}]

---------------------------------------------------------------------------
(* The consistency checker *)

isAssertionConsistent(st, a) ==
    \A i \in 1..Len(st.nc) :
        (/\ st.nc[i].context = a.Context /\ st.nc[i].zone = a.SubjectZone
         /\ Covers(st.nc[i].value.section, a.SubjectName))
        => a \in ContainedAssertions(st.nc[i].value.section)

isShardConsistent(st, s) ==
    \A i \in 1..Len(st.ac) :
        (/\ st.ac[i].context = s.Context /\ st.ac[i].zone = s.SubjectZone
         /\ Covers(s, st.ac[i].name))
        => st.ac[i].value.section \in ContainedAssertions(s)

isZoneConsistent(st, z) ==
    \A i \in 1..Len(st.ac) :
        (st.ac[i].context = z.Context /\ st.ac[i].zone = z.SubjectZone)
        => st.ac[i].value.section \in ContainedAssertions(z)

---------------------------------------------------------------------------
(* The delegation resolver: zone "s" is served by this server *)

getDelegationAddress(context, zone) ==
    IF zone = Str_s THEN serverConnInfo ELSE rootConnInfo

---------------------------------------------------------------------------
(* The engine.  A handler works on a record st of the server's state:     *)
(*   ac, nc, pq, ps   the four caches                                      *)
(*   out              what the handler has sent so far, in order           *)
(*   crashed          the process panicked                                 *)
(*   flags            which branches the handler took                      *)
(* t is time.Now().Unix().                                                 *)

Flag(st, f) == [st EXCEPT !.flags = @ \cup {f}]

\* sendQueryAnswer: the section to sender under token
sendQueryAnswer(st, section, sender, token) ==
    [st EXCEPT !.out = Append(@, [kind |-> "section", to |-> sender,
                                  token |-> token, section |-> section])]

sendNotificationMsg(st, token, sender, ntype) ==
    [st EXCEPT !.out = Append(@, [kind |-> "notification", to |-> sender,
                                  token |-> token, ntype |-> ntype])]

sendQuery(st, context, zone, expires, qtype, token, delegate) ==
    [st EXCEPT !.out = Append(@, [kind |-> "query", to |-> delegate, token |-> token,
                                  context |-> context, zone |-> zone,
                                  expires |-> expires, qtype |-> qtype])]

\* normalChannel <- msgSectionSender{...}
enqueueNormal(st, x) ==
    [st EXCEPT !.out = Append(@, [kind |-> "enqueue", section |-> x.section,
                                  to |-> x.sender, token |-> x.token])]

\* a waiter is answered only while its own validUntil lies ahead
\* mutant: the deadline of the waiter is not looked at
waiterIsLive_Always(v, t) == TRUE

waiterIsLive(v, t) == v.validUntil > t

\* the token an answer to waiter v is tagged with
answerToken(v) == v.token

RECURSIVE answerWaiters(_, _, _, _)
answerWaiters(st, section, values, t) ==
    IF values = <<>> THEN st
    ELSE answerWaiters(
            IF waiterIsLive(Head(values), t)
            THEN sendQueryAnswer(st, section, Head(values).connInfo, answerToken(Head(values)))
            ELSE Flag(st, "expired"),
            section, Tail(values), t)

\* mutant: the waiters are read but stay in the cache
fetchWaiters_KeepsEntries(pq, token) ==
    [pendingQueriesGetAllAndDelete(pq, token) EXCEPT !.pq = pq]

\* the waiters handlePendingQueries takes out of the cache for token
fetchWaiters(pq, token) == pendingQueriesGetAllAndDelete(pq, token)

handlePendingQueries(st, section, token, t) ==
    LET r == fetchWaiters(st.pq, token)
    IN  IF r.ok
        THEN answerWaiters(Flag([st EXCEPT !.pq = r.pq], "handled"), section,
                           SetToSeq(r.values), t)
        ELSE Flag(st, "handled")

\* what the validity getters return when validFrom lies too far ahead
validityRejected == [validFrom |-> 0, validUntil |-> 0, ok |-> FALSE]

\* mutant: validUntil is taken from the section as it is
clampValidity_NoCap(section, maxValidity, t) ==
    IF section.validFrom > t + maxValidity THEN validityRejected
    ELSE [validFrom |-> section.validFrom, validUntil |-> section.validUntil, ok |-> TRUE]

clampValidity(section, maxValidity, t) ==
    IF section.validFrom > t + maxValidity THEN validityRejected
    ELSE IF section.validUntil > t + maxValidity
         THEN [validFrom |-> section.validFrom, validUntil |-> t + maxValidity, ok |-> TRUE]
         ELSE [validFrom |-> section.validFrom, validUntil |-> section.validUntil, ok |-> TRUE]

getAssertionValidity(a, t) == clampValidity(a, MaxCacheAssertionValidity, t)

getShardValidity(s, t) == clampValidity(s, MaxCacheShardValidity, t)

getZoneValidity(z, t) == clampValidity(z, MaxCacheZoneValidity, t)

shouldAssertionBeCached(a) == TRUE

shouldShardBeCached(s) == TRUE

shouldZoneBeCached(z) == TRUE

\* mutant: the waiters of a refused section stay in the cache
dropWaiters_KeepsEntries(st, token) == Flag(st, "purged")

\* the section's validity was refused: drop the waiters of token
dropWaiters(st, token) ==
    LET r == pendingQueriesGetAllAndDelete(st.pq, token)
    IN  [st EXCEPT !.pq = r.pq,
                   !.flags = @ \cup {"purged"} \cup (IF r.ok THEN {"released"} ELSE {})]

\* returns [st, ok]; a.Content[0] of an empty content panics
\* the cache after the insert, with a note when an entry had to make room
Inserted(st, ac) ==
    IF Range(st.ac) \ Range(ac) # {} THEN Flag([st EXCEPT !.ac = ac], "evicted")
    ELSE [st EXCEPT !.ac = ac]

\* mutant: the assertion is cached as not authoritative
cacheAssertion_NotAuthoritative(st, a, isAuthoritative, v, t) ==
    Inserted(st, assertionCacheAdd(st.ac, a.Context, a.SubjectZone, a.SubjectName,
                                   a.Content[1].Type, FALSE,
                                   [section |-> a, validFrom |-> v.validFrom,
                                    validUntil |-> v.validUntil], t))

\* mutant: the assertion is stored under the type of its last object
cacheAssertion_LastType(st, a, isAuthoritative, v, t) ==
    Inserted(st, assertionCacheAdd(st.ac, a.Context, a.SubjectZone, a.SubjectName,
                                   a.Content[Len(a.Content)].Type, isAuthoritative,
                                   [section |-> a, validFrom |-> v.validFrom,
                                    validUntil |-> v.validUntil], t))

\* value := assertionCacheValue{...}; assertionsCache.Add(..., isAuthoritative, value)
cacheAssertion(st, a, isAuthoritative, v, t) ==
    Inserted(st, assertionCacheAdd(st.ac, a.Context, a.SubjectZone, a.SubjectName,
                                   a.Content[1].Type, isAuthoritative,
                                   [section |-> a, validFrom |-> v.validFrom,
                                    validUntil |-> v.validUntil], t))

assertAssertion(st, a, isAuthoritative, token, t) ==
    LET v == getAssertionValidity(a, t)
    IN  IF v.ok
        THEN IF shouldAssertionBeCached(a)
             THEN IF Len(a.Content) = 0
                  THEN [st |-> [st EXCEPT !.crashed = TRUE], ok |-> FALSE]
                  ELSE [st |-> cacheAssertion(st, a, isAuthoritative, v, t), ok |-> TRUE]
             ELSE [st |-> st, ok |-> TRUE]
        ELSE IF v.validFrom < t
             THEN [st |-> dropWaiters(st, token), ok |-> FALSE]
             ELSE [st |-> st, ok |-> TRUE]

\* mutant: the loop over the content ends at the first assertion that is refused
RECURSIVE assertShardContent_StopsAtRefused(_, _, _, _)
assertShardContent_StopsAtRefused(st, content, isAuthoritative, t) ==
    IF content = <<>> \/ st.crashed THEN st
    ELSE LET r == assertAssertion(st, Head(content), isAuthoritative, ZeroToken, t)
         IN  IF r.ok
             THEN assertShardContent_StopsAtRefused(r.st, Tail(content), isAuthoritative, t)
             ELSE r.st

\* for _, a := range shard.Content { assertAssertion(a, isAuthoritative, [16]byte{}) }
RECURSIVE assertShardContent(_, _, _, _)
assertShardContent(st, content, isAuthoritative, t) ==
    IF content = <<>> \/ st.crashed THEN st
    ELSE assertShardContent(
            assertAssertion(st, Head(content), isAuthoritative, ZeroToken, t).st,
            Tail(content), isAuthoritative, t)

assertShard(st, shard, isAuthoritative, token, t) ==
    LET v == getShardValidity(shard, t)
        cached == IF shouldShardBeCached(shard)
                  THEN [st EXCEPT !.nc = negAssertionCacheAdd(@, shard.Context,
                            shard.SubjectZone, isAuthoritative,
                            [section |-> shard, validFrom |-> v.validFrom,
                             validUntil |-> v.validUntil], t)]
                  ELSE st
        done == assertShardContent(cached, shard.Content, isAuthoritative, t)
    IN  IF v.ok THEN [st |-> done, ok |-> ~done.crashed]
        ELSE IF v.validFrom < t
             THEN [st |-> dropWaiters(st, token), ok |-> FALSE]
             ELSE [st |-> st, ok |-> TRUE]

RECURSIVE assertZoneContent(_, _, _, _)
assertZoneContent(st, content, isAuthoritative, t) ==
    IF content = <<>> \/ st.crashed THEN st
    ELSE assertZoneContent(
            IF Head(content).kind = "Assertion"
            THEN assertAssertion(st, Head(content), isAuthoritative, ZeroToken, t).st
            ELSE IF Head(content).kind = "Shard"
            THEN assertShard(st, Head(content), isAuthoritative, ZeroToken, t).st
            ELSE st,
            Tail(content), isAuthoritative, t)

assertZone(st, zone, isAuthoritative, token, t) ==
    LET v == getZoneValidity(zone, t)
        cached == IF shouldZoneBeCached(zone)
                  THEN [st EXCEPT !.nc = negAssertionCacheAdd(@, zone.Context,
                            zone.SubjectZone, isAuthoritative,
                            [section |-> zone, validFrom |-> v.validFrom,
                             validUntil |-> v.validUntil], t)]
                  ELSE st
        done == assertZoneContent(cached, zone.Content, isAuthoritative, t)
    IN  IF v.ok THEN [st |-> done, ok |-> ~done.crashed]
        ELSE IF v.validFrom < t
             THEN [st |-> dropWaiters(st, token), ok |-> FALSE]
             ELSE [st |-> st, ok |-> TRUE]

RECURSIVE enqueueAll(_, _)
enqueueAll(st, sections) ==
    IF sections = <<>> THEN st
    ELSE enqueueAll(enqueueNormal(st, Head(sections)), Tail(sections))

handleAssertion(st, a, token, t) ==
    LET r == pendingSignaturesGetAllAndDelete(st.ps, a.Context, a.SubjectZone)
        woken == IF a.Content[1].Type = OTDelegation /\ r.ok
                 THEN enqueueAll([st EXCEPT !.ps = r.ps], SetToSeq(r.sections))
                 ELSE st
    IN  handlePendingQueries(woken, a, token, t)

\* the consistency check gates the whole of assert
passesConsistency(st, section) ==
    CASE section.kind = "Assertion" -> isAssertionConsistent(st, section)
      [] section.kind = "Shard" -> isShardConsistent(st, section)
      [] section.kind = "Zone" -> isZoneConsistent(st, section)

\* assertAssertion, assertShard or assertZone, by the kind of the section
assertSection(st, section, isAuthoritative, token, t) ==
    CASE section.kind = "Assertion" -> assertAssertion(st, section, isAuthoritative, token, t)
      [] section.kind = "Shard" -> assertShard(st, section, isAuthoritative, token, t)
      [] section.kind = "Zone" -> assertZone(st, section, isAuthoritative, token, t)

\* mutant: a section no live waiter is waiting for is dropped uncached
assertConsistent_DropsUnawaited(st, section, isAuthoritative, token, t) ==
    IF \A v \in st.pq : v.token = token => v.validUntil <= t
    THEN handlePendingQueries(st, section, token, t)
    ELSE LET r == assertSection(st, section, isAuthoritative, token, t)
         IN  IF ~r.ok THEN r.st
             ELSE IF section.kind = "Assertion" THEN handleAssertion(r.st, section, token, t)
             ELSE handlePendingQueries(r.st, section, token, t)

\* what assert does with a section that passed the consistency check
assertConsistent(st, section, isAuthoritative, token, t) ==
    LET r == assertSection(st, section, isAuthoritative, token, t)
    IN  IF ~r.ok THEN r.st
        ELSE IF section.kind = "Assertion" THEN handleAssertion(r.st, section, token, t)
        ELSE handlePendingQueries(r.st, section, token, t)

\* mutant: the section is processed whatever the consistency check says
assert_SkipsCheck(st, section, isAuthoritative, token, t) ==
    assertConsistent(st, section, isAuthoritative, token, t)

\* mutant: an inconsistent section releases the waiters of its token, as a
\* section with a refused validity does
assert_InconsistentPurges(st, section, isAuthoritative, token, t) ==
    IF passesConsistency(st, section)
    THEN assertConsistent(st, section, isAuthoritative, token, t)
    ELSE Flag(dropWaiters(st, token), "inconsistent")

assert(st, section, isAuthoritative, token, t) ==
    IF passesConsistency(st, section)
    THEN assertConsistent(st, section, isAuthoritative, token, t)
    ELSE Flag(st, "inconsistent")

---------------------------------------------------------------------------
(* query *)

\* the token of the forwarded query
outboundToken(q, fresh) ==
    IF TokenTracing \in q.Options THEN q.Token ELSE fresh

\* mutant: the expiration time of the query is not looked at
forwardValidUntil_IgnoresExpires(q, t) == t + AssertionQueryValidity

\* upper bound for the forwarded query's expiration time
forwardValidUntil(q, t) ==
    IF q.Expires < t + AssertionQueryValidity THEN q.Expires
    ELSE t + AssertionQueryValidity

\* pendingQuerySetValue{connInfo: sender, token: token, validUntil: validUntil}
pendingQuerySetValue(q, sender, token, validUntil) ==
    [connInfo |-> sender, token |-> token, validUntil |-> validUntil]

\* mutant: the option is not looked at
answersFromCacheOnly_Ignored(q) == FALSE

\* a miss in both caches is answered without forwarding
answersFromCacheOnly(q) == CachedAnswersOnly \in q.Options

\* pendingQueries.Add followed by sendQuery; the result of Add is not looked at
forwardQuery(st, q, sender, zAn, delegate, token, validUntil) ==
    LET added == pendingQueriesAdd(st.pq, pendingQuerySetValue(q, sender, token, validUntil))
        st1 == [st EXCEPT !.pq = added.pq,
                          !.flags = @ \cup (IF added.ok THEN {} ELSE {"overflow"})]
    IN  Flag(sendQuery(st1, q.Context, zAn.zone, validUntil, q.Type, token, delegate),
             "forwarded")

\* mutant: expired assertions are always asked for
includesExpired_Always(q) == TRUE

\* query.ContainsOption(rainslib.ExpiredAssertionsOk)
includesExpired(q) == ExpiredAssertionsOk \in q.Options

\* mutant: this server never recognises its own address
delegateIsSelf_Never(delegate) == FALSE

\* delegate.Equal(serverConnInfo)
delegateIsSelf(delegate) == delegate = serverConnInfo

\* what query does once both caches have missed
queryMiss(st, q, sender, fresh, t) ==
    LET zAn == getZoneAndName(q.Name)[1]
        delegate == getDelegationAddress(q.Context, zAn.zone)
    IN  IF answersFromCacheOnly(q)
        THEN Flag(sendNotificationMsg(st, q.Token, sender, NoAssertionAvail), "cachedonly")
        ELSE IF delegateIsSelf(delegate)
        THEN Flag(sendNotificationMsg(st, q.Token, sender, NoAssertionAvail), "self")
        ELSE forwardQuery(st, q, sender, zAn, delegate, outboundToken(q, fresh),
                          forwardValidUntil(q, t))

\* mutant: the return after the answer from the assertion cache is missing
query_HitNoReturn(st, q, sender, fresh, t) ==
    LET zAn == getZoneAndName(q.Name)[1]
        hit == assertionCacheGet(st.ac, q.Context, zAn.zone, zAn.name, q.Type,
                                 includesExpired(q), t)
        neg == negAssertionCacheGet(st.nc, q.Context, zAn.zone, zAn.name)
        st1 == IF hit.ok
               THEN Flag(sendQueryAnswer(st, hit.assertions[1], sender, q.Token), "hit")
               ELSE st
    IN  IF neg.ok
        THEN Flag(sendQueryAnswer(st1, neg.section, sender, q.Token), "neghit")
        ELSE queryMiss(st1, q, sender, fresh, t)

\* mutant: the negative cache is probed before the assertion cache
query_NegativeFirst(st, q, sender, fresh, t) ==
    LET zAn == getZoneAndName(q.Name)[1]
        hit == assertionCacheGet(st.ac, q.Context, zAn.zone, zAn.name, q.Type,
                                 includesExpired(q), t)
        neg == negAssertionCacheGet(st.nc, q.Context, zAn.zone, zAn.name)
    IN  IF neg.ok
        THEN Flag(sendQueryAnswer(st, neg.section, sender, q.Token), "neghit")
        ELSE IF hit.ok
        THEN Flag(sendQueryAnswer(st, hit.assertions[1], sender, q.Token), "hit")
        ELSE queryMiss(st, q, sender, fresh, t)

query(st, q, sender, fresh, t) ==
    LET zAn == getZoneAndName(q.Name)[1]
        hit == assertionCacheGet(st.ac, q.Context, zAn.zone, zAn.name, q.Type,
                                 includesExpired(q), t)
        neg == negAssertionCacheGet(st.nc, q.Context, zAn.zone, zAn.name)
    IN  IF hit.ok
        THEN Flag(sendQueryAnswer(st, hit.assertions[1], sender, q.Token), "hit")
        ELSE IF neg.ok
        THEN Flag(sendQueryAnswer(st, neg.section, sender, q.Token), "neghit")
        ELSE queryMiss(st, q, sender, fresh, t)

---------------------------------------------------------------------------
(* reapEngine *)

RECURSIVE notifyExpired(_, _)
notifyExpired(st, values) ==
    IF values = <<>> THEN st
    ELSE notifyExpired(
            sendNotificationMsg(st, Head(values).token, Head(values).connInfo, NoAssertionAvail),
            Tail(values))

\* mutant: the reaper forgets the pending query cache
reapEngine_KeepsPendingQueries(st, t) ==
    [st EXCEPT !.ac = assertionCacheRemoveExpiredValues(@, t),
               !.nc = negAssertionCacheRemoveExpiredValues(@, t)]

reapEngine(st, t) ==
    LET gone == pendingQueriesExpired(st.pq, t)
    IN  notifyExpired([st EXCEPT !.ac = assertionCacheRemoveExpiredValues(@, t),
                                 !.nc = negAssertionCacheRemoveExpiredValues(@, t),
                                 !.pq = @ \ gone],
                      SetToSeq(gone))

---------------------------------------------------------------------------
(* The inputs the model draws from *)

Clients == {"c1", "c2"}

\* each client tags its queries with a token of its own
ClientToken(c) == IF c = "c1" THEN 1 ELSE 0

Name_a_c == <<"a", ".", "c">>
Name_a_s == <<"a", ".", "s">>
Name_b_c == <<"b", ".", "c">>

QuerySection(name, qtype, token, expires, options) ==
    [Context |-> GlobalContext, Name |-> name, Type |-> qtype, Token |-> token,
     Expires |-> expires, Options |-> options]

aOk == AssertionSection(Str_a, <<Obj(OTIP4Addr)>>, 1, 1)
aFar == AssertionSection(Str_a, <<Obj(OTIP4Addr)>>, 9, 9)
sOk == ShardSection(<<>>, <<>>, <<aOk>>, 1, 1)
sSib == ShardSection(<<>>, <<>>, <<aFar, aOk>>, 1, 2)
sFar == ShardSection(<<>>, <<>>, <<aOk>>, 9, 9)
zOk == ZoneSection(<<aOk, sOk>>, 1, 2)
zFar == ZoneSection(<<aOk>>, 9, 9)

Sections == {aOk, aFar, sOk, sSib, sFar, zOk, zFar}

QueryOptions ==
    {{}, {CachedAnswersOnly}, {ExpiredAssertionsOk}, {TokenTracing},
     {CachedAnswersOnly, TokenTracing}, {CachedAnswersOnly, ExpiredAssertionsOk}}

Queries ==
    {QuerySection(Name_a_c, OTIP4Addr, ClientToken(c), e, o) :
        c \in Clients, e \in {1, 9}, o \in QueryOptions}
    \cup {QuerySection(Name_a_s, OTIP4Addr, ClientToken(c), 9, o) :
        c \in Clients, o \in {{}, {TokenTracing}}}

\* rainslib.GenerateToken() is called only without TokenTracing
GenerateToken(q) == IF TokenTracing \in q.Options THEN {q.Token} ELSE Tokens

\* sections with long, inverted and soon-to-start validities, for the caches
aLong == AssertionSection(Str_a, <<Obj(OTIP4Addr)>>, 1, 9)
aInv == AssertionSection(Str_a, <<Obj(OTIP4Addr)>>, 2, 1)
aSoon == AssertionSection(Str_a, <<Obj(OTIP4Addr)>>, 3, 9)
sLong == ShardSection(<<>>, <<>>, <<aLong>>, 1, 9)
sSoon == ShardSection(<<>>, <<>>, <<aSoon, aLong>>, 4, 9)
zLong == ZoneSection(<<aLong, sLong>>, 1, 9)
zSoon == ZoneSection(<<sSoon>>, 5, 9)

CacheSections == {aOk, aLong, aInv, aSoon, sLong, sSoon, zLong, zSoon}

CacheQueries ==
    {QuerySection(Name_a_c, OTIP4Addr, ClientToken("c1"), 9, o) :
        o \in {{CachedAnswersOnly}, {CachedAnswersOnly, ExpiredAssertionsOk}}}

\* the sender of query q
SenderOf(q) == CHOOSE c \in Clients : ClientToken(c) = q.Token

---------------------------------------------------------------------------
(* The state machine: every handler runs to completion *)

VARIABLES
    now,                \* time.Now().Unix()
    assertionsCache,
    negAssertionCache,
    pendingQueries,
    pendingSignatures,
    out,                \* what the last handler sent
    crashed,
    last,               \* the last handler call and the branches it took
    threads,            \* the worker goroutines, when handlers interleave
    woken               \* how many answers each waiting client was sent

vars == <<now, assertionsCache, negAssertionCache, pendingQueries,
          pendingSignatures, out, crashed, last, threads, woken>>

Current ==
    [ac |-> assertionsCache, nc |-> negAssertionCache, pq |-> pendingQueries,
     ps |-> pendingSignatures, out |-> <<>>, crashed |-> crashed, flags |-> {}]

Becomes(st) ==
    /\ assertionsCache' = st.ac
    /\ negAssertionCache' = st.nc
    /\ pendingQueries' = st.pq
    /\ pendingSignatures' = st.ps
    /\ out' = st.out
    /\ crashed' = st.crashed

\* worker goroutines: two serve a query each, two a section each
QueryThreads == {"q1", "q2"}

AssertThreads == {"s1", "s2"}

Threads == QueryThreads \cup AssertThreads

\* the client whose query a query thread serves
ClientOf(th) == IF th = "q1" THEN "c1" ELSE "c2"

Init ==
    /\ now = 1
    /\ assertionsCache = <<>>
    /\ negAssertionCache = <<>>
    /\ pendingQueries = {}
    /\ pendingSignatures = {}
    /\ out = <<>>
    /\ crashed = FALSE
    /\ last = [op |-> "init", flags |-> {}]
    /\ threads = [th \in Threads |-> [pc |-> "idle"]]
    /\ woken = [c \in Clients |-> 0]

Tick ==
    /\ ~crashed
    /\ now < MaxNow
    /\ now' = now + 1
    /\ out' = <<>>
    /\ last' = [op |-> "tick", flags |-> {}]
    /\ UNCHANGED <<assertionsCache, negAssertionCache, pendingQueries,
                   pendingSignatures, crashed, threads, woken>>

AssertSection(section, isAuthoritative, token) ==
    /\ ~crashed
    /\ LET st == assert(Current, section, isAuthoritative, token, now)
       IN  /\ Becomes(st)
           /\ last' = [op |-> "assert", section |-> section,
                       authoritative |-> isAuthoritative, token |-> token,
                       flags |-> st.flags]
    /\ UNCHANGED <<now, threads, woken>>

Query(q, sender, fresh) ==
    /\ ~crashed
    /\ LET st == query(Current, q, sender, fresh, now)
       IN  /\ Becomes(st)
           /\ last' = [op |-> "query", q |-> q, sender |-> sender, flags |-> st.flags]
    /\ UNCHANGED <<now, threads, woken>>

ReapEngine ==
    /\ ~crashed
    /\ LET st == reapEngine(Current, now)
       IN  /\ Becomes(st)
           /\ last' = [op |-> "reap", flags |-> {}]
    /\ UNCHANGED <<now, threads, woken>>

Next ==
    \/ Tick
    \/ \E section \in Sections, token \in Tokens : AssertSection(section, FALSE, token)
    \/ \E q \in Queries : \E fresh \in GenerateToken(q) : Query(q, SenderOf(q), fresh)
    \/ ReapEngine

Spec == Init /\ [][Next]_vars

\* the same machine fed with the sections that exercise the caches
NextCache ==
    \/ Tick
    \/ \E section \in CacheSections, isAuthoritative \in BOOLEAN :
          AssertSection(section, isAuthoritative, ZeroToken)
    \/ \E q \in CacheQueries : \E fresh \in GenerateToken(q) : Query(q, SenderOf(q), fresh)
    \/ ReapEngine

SpecCache == Init /\ [][NextCache]_vars

---------------------------------------------------------------------------
(* The reaper at work: queries are forwarded, no response arrives, time    *)
(* passes and the reaper goroutine is scheduled again and again.           *)

ReapQueries ==
    {QuerySection(Name_a_c, OTIP4Addr, ClientToken(c), e, o) :
        c \in Clients, e \in {1, 9}, o \in {{}, {TokenTracing}}}

NextReap ==
    \/ Tick
    \/ \E q \in ReapQueries : \E fresh \in GenerateToken(q) : Query(q, SenderOf(q), fresh)
    \/ ReapEngine

SpecReap == Init /\ [][NextReap]_vars /\ WF_vars(ReapEngine)

---------------------------------------------------------------------------
(* Late responses: forwarded queries with short and long deadlines, and    *)
(* the sections that answer them arriving before or after the deadline.    *)

LateQueries ==
    {QuerySection(Name_a_c, OTIP4Addr, ClientToken(c), e, {}) :
        c \in Clients, e \in {1, 9}}

\* the responses, and a section this server is authoritative for
LateSections == {<<aOk, FALSE>>, <<sOk, FALSE>>, <<aLong, TRUE>>}

NextLate ==
    \/ Tick
    \/ \E x \in LateSections, token \in Tokens : AssertSection(x[1], x[2], token)
    \/ \E q \in LateQueries : \E fresh \in GenerateToken(q) : Query(q, SenderOf(q), fresh)
    \/ ReapEngine

SpecLate == Init /\ [][NextLate]_vars

---------------------------------------------------------------------------
(* Answering queries: names that hit the assertion cache, only the         *)
(* negative cache, or neither, in a zone served elsewhere and in the zone  *)
(* this server is the delegate of.                                         *)

AnswerQueries ==
    {QuerySection(n, OTIP4Addr, ClientToken(c), 9, o) :
        n \in {Name_a_c, Name_b_c}, c \in Clients, o \in {{}, {ExpiredAssertionsOk}}}
    \cup {QuerySection(Name_a_s, OTIP4Addr, ClientToken(c), 9, {}) : c \in Clients}

AnswerSections == {aOk, aLong, sOk}

NextAnswer ==
    \/ Tick
    \/ \E section \in AnswerSections : AssertSection(section, FALSE, ZeroToken)
    \/ \E q \in AnswerQueries : \E fresh \in GenerateToken(q) : Query(q, SenderOf(q), fresh)
    \/ ReapEngine

SpecAnswer == Init /\ [][NextAnswer]_vars

---------------------------------------------------------------------------
(* Assertions without content, alone and inside a shard, among ordinary    *)
(* traffic.                                                                *)

aEmpty == AssertionSection(Str_a, <<>>, 1, 1)
sEmpty == ShardSection(<<>>, <<>>, <<aEmpty>>, 1, 1)

EmptySections == {aEmpty, sEmpty, aOk, aFar}

NextEmpty ==
    \/ Tick
    \/ \E section \in EmptySections, token \in Tokens : AssertSection(section, FALSE, token)
    \/ \E q \in LateQueries : \E fresh \in GenerateToken(q) : Query(q, SenderOf(q), fresh)
    \/ ReapEngine

SpecEmpty == Init /\ [][NextEmpty]_vars

\* shards and zones with a child whose validity starts too far ahead, before,
\* between and after children that are in the window
bOk == AssertionSection(Str_b, <<Obj(OTIP4Addr)>>, 1, 1)
sMid == ShardSection(<<>>, <<>>, <<aOk, aFar, bOk>>, 1, 1)
zMid == ZoneSection(<<aOk, sFar, bOk>>, 1, 2)
zDeep == ZoneSection(<<sSib, aFar>>, 1, 2)

ContainedSections == {aOk, bOk, sSib, sMid, zMid, zDeep}

NextContained ==
    \/ Tick
    \/ \E section \in ContainedSections, token \in Tokens :
          AssertSection(section, FALSE, token)
    \/ \E q \in LateQueries : \E fresh \in GenerateToken(q) : Query(q, SenderOf(q), fresh)
    \/ ReapEngine

SpecContained == Init /\ [][NextContained]_vars

\* an assertion without a delegation, assertions with a delegation as their
\* first and as their second object, and a shard with the former inside
DelegSections ==
    {aOk,
     AssertionSection(Str_a, <<Obj(OTDelegation)>>, 1, 1),
     AssertionSection(Str_a, <<Obj(OTIP4Addr), Obj(OTDelegation)>>, 1, 1),
     ShardSection(<<>>, <<>>, <<AssertionSection(Str_a, <<Obj(OTDelegation)>>, 1, 1)>>, 1, 1)}

\* sections the signature check has parked until the delegation of their
\* zone is known: two of zone c, from different senders, and one of zone s
Blocked ==
    {[context |-> GlobalContext, zone |-> Str_c, section |-> aOk, sender |-> "c1",
      token |-> ClientToken("c1")],
     [context |-> GlobalContext, zone |-> Str_c, section |-> bOk, sender |-> "c2",
      token |-> ClientToken("c2")],
     [context |-> GlobalContext, zone |-> Str_s, section |-> aOk, sender |-> "c1",
      token |-> ClientToken("c1")]}

InitDeleg ==
    /\ now = 1
    /\ assertionsCache = <<>>
    /\ negAssertionCache = <<>>
    /\ pendingQueries = {}
    /\ pendingSignatures \in SUBSET Blocked
    /\ out = <<>>
    /\ crashed = FALSE
    /\ last = [op |-> "init", flags |-> {}]
    /\ threads = [th \in Threads |-> [pc |-> "idle"]]
    /\ woken = [c \in Clients |-> 0]

NextDeleg ==
    \/ Tick
    \/ \E section \in DelegSections, token \in Tokens :
          AssertSection(section, FALSE, token)
    \/ ReapEngine

SpecDeleg == InitDeleg /\ [][NextDeleg]_vars

\* assertions of one and of two objects, and queries for the type of either
NextTypes ==
    \/ Tick
    \/ \E section \in {aOk, AssertionSection(Str_a, <<Obj(OTIP4Addr), Obj(OTIP6Addr)>>, 1, 2),
                        AssertionSection(Str_b, <<Obj(OTIP6Addr), Obj(OTIP4Addr)>>, 1, 2)},
          token \in Tokens :
          AssertSection(section, FALSE, token)
    \/ \E qtype \in {OTIP4Addr, OTIP6Addr}, name \in {Name_a_c, Name_b_c},
          o \in {{}, {CachedAnswersOnly}} :
          \E fresh \in Tokens :
              Query(QuerySection(name, qtype, ClientToken("c1"), 9, o), "c1", fresh)
    \/ ReapEngine

SpecTypes == Init /\ [][NextTypes]_vars

---------------------------------------------------------------------------
(* Interleaved handlers.  Each goroutine serves one request and takes one  *)
(* step at a time; a step is one call on the pending query cache, which    *)
(* locks internally, together with the code before it.                     *)

ConcSections == {aOk, aFar, sOk}

ConcQueries(th) ==
    {QuerySection(Name_a_c, OTIP4Addr, ClientToken(ClientOf(th)), e, o) :
        e \in {1, 9}, o \in {{}, {TokenTracing}}}

SetThread(th, rec) == threads' = [threads EXCEPT ![th] = rec]

\* query up to the decision to forward: the caches are probed, the outbound
\* token and validUntil chosen
QueryProbe(th, q, fresh) ==
    /\ ~crashed
    /\ threads[th].pc = "idle"
    /\ IF "forwarded" \in query(Current, q, ClientOf(th), fresh, now).flags
       THEN SetThread(th, [pc |-> "add", q |-> q, token |-> outboundToken(q, fresh),
                           validUntil |-> forwardValidUntil(q, now)])
       ELSE SetThread(th, [pc |-> "done"])
    /\ UNCHANGED <<now, assertionsCache, negAssertionCache, pendingQueries,
                   pendingSignatures, out, crashed, last, woken>>

\* pendingQueries.Add(...)
QueryAdd(th) ==
    /\ threads[th].pc = "add"
    /\ pendingQueries' =
          pendingQueriesAdd(pendingQueries,
              pendingQuerySetValue(threads[th].q, ClientOf(th), threads[th].token,
                                   threads[th].validUntil)).pq
    /\ SetThread(th, [pc |-> "send", token |-> threads[th].token])
    /\ UNCHANGED <<now, assertionsCache, negAssertionCache, pendingSignatures,
                   out, crashed, last, woken>>

\* sendQuery(...): from here on a response under the token may arrive
QuerySend(th) ==
    /\ threads[th].pc = "send"
    /\ SetThread(th, [pc |-> "done"])
    /\ UNCHANGED <<now, assertionsCache, negAssertionCache, pendingQueries,
                   pendingSignatures, out, crashed, last, woken>>

\* assert up to the call of handlePendingQueries: the consistency check and
\* assertAssertion, assertShard or assertZone
AssertCache(th, section, token) ==
    /\ ~crashed
    /\ threads[th].pc = "idle"
    /\ LET r == IF passesConsistency(Current, section)
                THEN assertSection(Current, section, FALSE, token, now)
                ELSE [st |-> Current, ok |-> FALSE]
       IN  /\ assertionsCache' = r.st.ac
           /\ negAssertionCache' = r.st.nc
           /\ pendingQueries' = r.st.pq
           /\ crashed' = r.st.crashed
           /\ SetThread(th, IF r.ok
                            THEN [pc |-> "fetch", section |-> section, token |-> token]
                            ELSE [pc |-> "done"])
    /\ UNCHANGED <<now, pendingSignatures, out, last, woken>>

\* handlePendingQueries: values, ok := pendingQueries.GetAllAndDelete(token)
AssertFetch(th) ==
    /\ threads[th].pc = "fetch"
    /\ LET r == fetchWaiters(pendingQueries, threads[th].token)
       IN  /\ pendingQueries' = r.pq
           /\ SetThread(th, IF r.ok
                            THEN [pc |-> "answer", section |-> threads[th].section,
                                  token |-> threads[th].token,
                                  values |-> SetToSeq(r.values)]
                            ELSE [pc |-> "done", token |-> threads[th].token])
    /\ UNCHANGED <<now, assertionsCache, negAssertionCache, pendingSignatures,
                   out, crashed, last, woken>>

\* handlePendingQueries: one turn of the loop over the fetched values
AssertAnswer(th) ==
    /\ threads[th].pc = "answer"
    /\ LET v == Head(threads[th].values)
           rest == Tail(threads[th].values)
       IN  /\ woken' = IF waiterIsLive(v, now)
                       THEN [woken EXCEPT ![v.connInfo] = @ + 1]
                       ELSE woken
           /\ SetThread(th, IF rest = <<>>
                            THEN [pc |-> "done", token |-> threads[th].token]
                            ELSE [threads[th] EXCEPT !.values = rest])
    /\ UNCHANGED <<now, assertionsCache, negAssertionCache, pendingQueries,
                   pendingSignatures, out, crashed, last>>

\* the reaper goroutine
ReapStep ==
    /\ ~crashed
    /\ LET st == reapEngine(Current, now)
       IN  /\ assertionsCache' = st.ac
           /\ negAssertionCache' = st.nc
           /\ pendingQueries' = st.pq
    /\ UNCHANGED <<now, pendingSignatures, out, crashed, last, threads, woken>>

ClockStep ==
    /\ now < MaxNow
    /\ now' = now + 1
    /\ UNCHANGED <<assertionsCache, negAssertionCache, pendingQueries,
                   pendingSignatures, out, crashed, last, threads, woken>>

NextConc ==
    \/ ClockStep
    \/ ReapStep
    \/ \E th \in QueryThreads : \E q \in ConcQueries(th) : \E fresh \in GenerateToken(q) :
          QueryProbe(th, q, fresh)
    \/ \E th \in QueryThreads : QueryAdd(th)
    \/ \E th \in QueryThreads : QuerySend(th)
    \/ \E th \in AssertThreads, section \in ConcSections, token \in Tokens :
          AssertCache(th, section, token)
    \/ \E th \in AssertThreads : AssertFetch(th)
    \/ \E th \in AssertThreads : AssertAnswer(th)

SpecConc == Init /\ [][NextConc]_vars

\* the query goroutines alone, on a server that may already hold waiters of
\* earlier queries of client c2
InitBusy ==
    /\ now = 1
    /\ assertionsCache = <<>>
    /\ negAssertionCache = <<>>
    /\ pendingQueries \in
          SUBSET {pendingQuerySetValue(q, "c2", token, 2) :
                     q \in ConcQueries("q2"), token \in Tokens}
    /\ Cardinality(pendingQueries) <= PendingQueryCacheSize
    /\ pendingSignatures = {}
    /\ out = <<>>
    /\ crashed = FALSE
    /\ last = [op |-> "init", flags |-> {}]
    /\ threads = [th \in Threads |-> [pc |-> "idle"]]
    /\ woken = [c \in Clients |-> 0]

NextBusy ==
    \/ ClockStep
    \/ ReapStep
    \/ \E th \in QueryThreads : \E q \in ConcQueries(th) : \E fresh \in GenerateToken(q) :
          QueryProbe(th, q, fresh)
    \/ \E th \in QueryThreads : QueryAdd(th)
    \/ \E th \in QueryThreads : QuerySend(th)

SpecBusy == InitBusy /\ [][NextBusy]_vars

\* the reaper goroutine, with out keeping every notification it has sent
ReapSweep ==
    /\ ~crashed
    /\ LET st == reapEngine(Current, now)
       IN  /\ assertionsCache' = st.ac
           /\ negAssertionCache' = st.nc
           /\ pendingQueries' = st.pq
           /\ out' = out \o st.out
    /\ UNCHANGED <<now, pendingSignatures, crashed, last, threads, woken>>

\* two query goroutines, one assert goroutine and the reaper
NextSweep ==
    \/ ClockStep
    \/ ReapSweep
    \/ \E th \in QueryThreads : \E q \in ConcQueries(th) : \E fresh \in GenerateToken(q) :
          QueryProbe(th, q, fresh)
    \/ \E th \in QueryThreads : QueryAdd(th)
    \/ \E th \in QueryThreads : QuerySend(th)
    \/ \E section \in {aOk, sOk}, token \in Tokens : AssertCache("s1", section, token)
    \/ AssertFetch("s1")
    \/ AssertAnswer("s1")

\* the clock starts one second earlier, so that a waiter can be live at one
\* step and past its validUntil at a later one
InitSweep ==
    /\ now = 0
    /\ assertionsCache = <<>>
    /\ negAssertionCache = <<>>
    /\ pendingQueries = {}
    /\ pendingSignatures = {}
    /\ out = <<>>
    /\ crashed = FALSE
    /\ last = [op |-> "init", flags |-> {}]
    /\ threads = [th \in Threads |-> [pc |-> "idle"]]
    /\ woken = [c \in Clients |-> 0]

SpecSweep == InitSweep /\ [][NextSweep]_vars

---------------------------------------------------------------------------
(* util.UpdateSectionValidity: the validity of a section from the validity *)
(* of the delegation key and of the signature, capped per kind.  A section *)
(* is a kind with validSince and validUntil, both 0 when fresh; nil is the *)
(* section of kind "nil".                                                  *)

\* the cap of the section's own kind
maxValidityOf(sec, maxVal) ==
    CASE sec.kind = "Assertion" -> maxVal.AssertionValidity
      [] sec.kind = "Shard" -> maxVal.ShardValidity
      [] sec.kind = "Zone" -> maxVal.ZoneValidity

\* sec.UpdateValidity(validSince, validUntil, maxValidity): the section takes
\* an earlier validSince and a later validUntil than it has, neither beyond
\* now + maxValidity
UpdateValidity(sec, validSince, validUntil, maxValidity, t) ==
    LET since == IF sec.validSince # 0 /\ sec.validSince <= validSince THEN sec.validSince
                 ELSE IF validSince > t + maxValidity THEN t + maxValidity
                 ELSE validSince
        until == IF validUntil <= sec.validUntil THEN sec.validUntil
                 ELSE IF validUntil > t + maxValidity THEN t + maxValidity
                 ELSE validUntil
    IN  [sec EXCEPT !.validSince = since, !.validUntil = until]

\* mutant: the bounds are stored as they come
UpdateSectionValidity_NoCap(sec, pkeySince, pkeyUntil, sigSince, sigUntil, maxVal, t) ==
    IF sec.kind = "nil" THEN [section |-> sec, panics |-> FALSE]
    ELSE [section |-> [sec EXCEPT
                          !.validSince = IF pkeySince < sigSince THEN sigSince ELSE pkeySince,
                          !.validUntil = IF pkeyUntil < sigUntil THEN pkeyUntil ELSE sigUntil],
          panics |-> FALSE]

\* mutant: validUntil is shortened only when the window is longer than the cap
UpdateSectionValidity_ByLength(sec, pkeySince, pkeyUntil, sigSince, sigUntil, maxVal, t) ==
    IF sec.kind = "nil" THEN [section |-> sec, panics |-> FALSE]
    ELSE LET since == IF pkeySince < sigSince THEN sigSince ELSE pkeySince
             until == IF pkeyUntil < sigUntil THEN pkeyUntil ELSE sigUntil
             cap == maxValidityOf(sec, maxVal)
         IN  [section |-> [sec EXCEPT
                  !.validSince = since,
                  !.validUntil = IF until - since <= cap THEN until
                                 ELSE IF since + cap > t + cap THEN t + cap
                                 ELSE since + cap],
              panics |-> FALSE]

\* mutant: the section is used without the nil check
UpdateSectionValidity_NoNilCheck(sec, pkeySince, pkeyUntil, sigSince, sigUntil, maxVal, t) ==
    IF sec.kind = "nil" THEN [section |-> sec, panics |-> TRUE]
    ELSE [section |-> UpdateValidity(sec,
                          IF pkeySince < sigSince THEN sigSince ELSE pkeySince,
                          IF pkeyUntil < sigUntil THEN pkeyUntil ELSE sigUntil,
                          maxValidityOf(sec, maxVal), t),
          panics |-> FALSE]

UpdateSectionValidity(sec, pkeySince, pkeyUntil, sigSince, sigUntil, maxVal, t) ==
    IF sec.kind = "nil" THEN [section |-> sec, panics |-> FALSE]
    ELSE [section |-> UpdateValidity(sec,
                          IF pkeySince < sigSince THEN sigSince ELSE pkeySince,
                          IF pkeyUntil < sigUntil THEN pkeyUntil ELSE sigUntil,
                          maxValidityOf(sec, maxVal), t),
          panics |-> FALSE]

\* the calls of the test: nil or a fresh section of a kind (validSince and
\* validUntil zero), the cap of its kind set and the other caps left zero
ValidityCalls(t) ==
    {[op |-> "call", cap |-> cap,
      input |-> [kind |-> kind, validSince |-> 0, validUntil |-> 0],
      maxVal |-> [AssertionValidity |-> IF kind = "Assertion" THEN cap ELSE 0,
                  ShardValidity |-> IF kind = "Shard" THEN cap ELSE 0,
                  ZoneValidity |-> IF kind = "Zone" THEN cap ELSE 0],
      pkeySince |-> ps, pkeyUntil |-> pu, sigSince |-> ss, sigUntil |-> su,
      flags |-> {}] :
        kind \in {"nil", "Assertion", "Shard", "Zone"}, cap \in {1, 2, 4},
        ps \in t..(t + MaxOffset), pu \in t..(t + MaxOffset),
        ss \in t..(t + MaxOffset), su \in t..(t + MaxOffset)}

InitValidity ==
    /\ now \in 1..MaxNow
    /\ assertionsCache = <<>>
    /\ negAssertionCache = <<>>
    /\ pendingQueries = {}
    /\ pendingSignatures = {}
    /\ out = <<>>
    /\ crashed = FALSE
    /\ last \in ValidityCalls(now)
    /\ threads = [th \in Threads |-> [pc |-> "idle"]]
    /\ woken = [c \in Clients |-> 0]

\* the body of the test's loop: one call of UpdateSectionValidity
UpdateSectionValidityCall ==
    /\ last.op = "call"
    /\ LET r == UpdateSectionValidity(last.input, last.pkeySince, last.pkeyUntil,
                                      last.sigSince, last.sigUntil, last.maxVal, now)
       IN  /\ crashed' = r.panics
           /\ last' = [last EXCEPT !.op = "UpdateSectionValidity", !.input = r.section]
    /\ UNCHANGED <<now, assertionsCache, negAssertionCache, pendingQueries,
                   pendingSignatures, out, threads, woken>>

NextValidity == UpdateSectionValidityCall

SpecValidity == InitValidity /\ [][NextValidity]_vars

---------------------------------------------------------------------------
(* rainslib.Object.CompareTo.  An object is its Type and its Value; a      *)
(* Value is a NameObject, a string or a ServiceInfo.  A comparison returns *)
(* -1, 0 or 1, or panics.                                                  *)

Returns(v) == [value |-> v, panics |-> FALSE]

\* NameObject.CompareTo: the names, then the types of n one by one against
\* the type of nameObj at the same index, which panics when nameObj has none
RECURSIVE compareTypes(_, _, _)
compareTypes(n, nameObj, i) ==
    IF i > Len(n.Types) THEN Returns(0)
    ELSE IF i > Len(nameObj.Types) THEN [value |-> 0, panics |-> TRUE]
    ELSE IF n.Types[i] < nameObj.Types[i] THEN Returns(-1)
    ELSE IF n.Types[i] > nameObj.Types[i] THEN Returns(1)
    ELSE compareTypes(n, nameObj, i + 1)

NameObjectCompareTo(n, nameObj) ==
    IF StrLess(n.Name, nameObj.Name) THEN Returns(-1)
    ELSE IF StrLess(nameObj.Name, n.Name) THEN Returns(1)
    ELSE compareTypes(n, nameObj, 1)

ServiceInfoCompareTo(s, serviceInfo) ==
    IF StrLess(s.Name, serviceInfo.Name) THEN Returns(-1)
    ELSE IF StrLess(serviceInfo.Name, s.Name) THEN Returns(1)
    ELSE IF s.Port < serviceInfo.Port THEN Returns(-1)
    ELSE IF s.Port > serviceInfo.Port THEN Returns(1)
    ELSE IF s.Priority < serviceInfo.Priority THEN Returns(-1)
    ELSE IF s.Priority > serviceInfo.Priority THEN Returns(1)
    ELSE Returns(0)

\* Object.CompareTo: the Type first, then the Value by its Go type; a Value
\* of object that is of another Go type than the Value of o compares as 0
ObjectCompareTo(o, object) ==
    IF o.Type < object.Type THEN Returns(-1)
    ELSE IF o.Type > object.Type THEN Returns(1)
    ELSE IF o.Value.kind # object.Value.kind THEN Returns(0)
    ELSE CASE o.Value.kind = "NameObject" -> NameObjectCompareTo(o.Value, object.Value)
           [] o.Value.kind = "string" ->
                  IF StrLess(o.Value.s, object.Value.s) THEN Returns(-1)
                  ELSE IF StrLess(object.Value.s, o.Value.s) THEN Returns(1)
                  ELSE Returns(0)
           [] o.Value.kind = "ServiceInfo" -> ServiceInfoCompareTo(o.Value, object.Value)
           [] OTHER -> Returns(0)

\* objects to compare: names with no, one or two types, addresses, services
Objects ==
    {[Type |-> OTName, Value |-> [kind |-> "NameObject", Name |-> n, Types |-> ts]] :
        n \in {Str_a, Str_b},
        ts \in {<<>>, <<OTIP6Addr>>, <<OTIP4Addr>>, <<OTIP6Addr, OTIP4Addr>>}}
    \cup {[Type |-> OTIP4Addr, Value |-> [kind |-> "string", s |-> v]] :
              v \in {Str_empty, Str_a, Str_b, Str_a \o Str_b}}
    \cup {[Type |-> OTServiceInfo,
           Value |-> [kind |-> "ServiceInfo", Name |-> n, Port |-> port, Priority |-> prio]] :
              n \in {Str_a, Str_b}, port \in {1, 2}, prio \in {0, 1}}

InitCompare ==
    /\ now = 1
    /\ assertionsCache = <<>>
    /\ negAssertionCache = <<>>
    /\ pendingQueries = {}
    /\ pendingSignatures = {}
    /\ out = <<>>
    /\ crashed = FALSE
    /\ last \in {[op |-> "call", o |-> o, object |-> object, flags |-> {}] :
                     o \in Objects, object \in Objects}
    /\ threads = [th \in Threads |-> [pc |-> "idle"]]
    /\ woken = [c \in Clients |-> 0]

\* o.CompareTo(object)
CompareToCall ==
    /\ last.op = "call"
    /\ LET r == ObjectCompareTo(last.o, last.object)
       IN  /\ crashed' = r.panics
           /\ last' = [op |-> "CompareTo", o |-> last.o, object |-> last.object,
                       result |-> r.value, flags |-> {}]
    /\ UNCHANGED <<now, assertionsCache, negAssertionCache, pendingQueries,
                   pendingSignatures, out, threads, woken>>

NextCompare == CompareToCall

SpecCompare == InitCompare /\ [][NextCompare]_vars

---------------------------------------------------------------------------
(* getZoneAndName on its own, for every name of a, c and dots *)

InitName ==
    /\ now = 1
    /\ assertionsCache = <<>>
    /\ negAssertionCache = <<>>
    /\ pendingQueries = {}
    /\ pendingSignatures = {}
    /\ out = <<>>
    /\ crashed = FALSE
    /\ last \in {[op |-> "call", name |-> n, flags |-> {}] :
                     n \in UNION {[1..k -> {"a", "c", "."}] : k \in 0..MaxNameLen}}
    /\ threads = [th \in Threads |-> [pc |-> "idle"]]
    /\ woken = [c \in Clients |-> 0]

\* zoneAndNames := getZoneAndName(query.Name)
GetZoneAndNameCall ==
    /\ last.op = "call"
    /\ last' = [op |-> "getZoneAndName", name |-> last.name,
                result |-> getZoneAndName(last.name), flags |-> {}]
    /\ UNCHANGED <<now, assertionsCache, negAssertionCache, pendingQueries,
                   pendingSignatures, out, crashed, threads, woken>>

NextName == GetZoneAndNameCall

SpecName == InitName /\ [][NextName]_vars

---------------------------------------------------------------------------
(* util.NewNotificationsMessage(tokens, types, data): one notification per *)
(* index under a fresh message token, or an error.                         *)

\* for i := range tokens { append Notification{tokens[i], types[i], data[i]} }
RECURSIVE notificationsFrom(_, _, _)
notificationsFrom(tokens, types, data) ==
    IF tokens = <<>> THEN <<>>
    ELSE <<[Token |-> Head(tokens), Type |-> Head(types), Data |-> Head(data)]>>
         \o notificationsFrom(Tail(tokens), Tail(types), Tail(data))

\* mutant: only the lengths of tokens and types are compared
NewNotificationsMessage_TwoLengths(tokens, types, data, fresh) ==
    IF Len(tokens) # Len(types)
    THEN [msg |-> [Token |-> ZeroToken, Content |-> <<>>],
          err |-> "input slices have not the same length"]
    ELSE [msg |-> [Token |-> fresh,
                   Content |-> notificationsFrom(tokens, types,
                                   data \o [i \in 1..Len(tokens) |-> ""])],
          err |-> ""]

NewNotificationsMessage(tokens, types, data, fresh) ==
    IF Len(tokens) # Len(types) \/ Len(types) # Len(data)
    THEN [msg |-> [Token |-> ZeroToken, Content |-> <<>>],
          err |-> "input slices have not the same length"]
    ELSE [msg |-> [Token |-> fresh, Content |-> notificationsFrom(tokens, types, data)],
          err |-> ""]

InitNotifications ==
    /\ now = 1
    /\ assertionsCache = <<>>
    /\ negAssertionCache = <<>>
    /\ pendingQueries = {}
    /\ pendingSignatures = {}
    /\ out = <<>>
    /\ crashed = FALSE
    /\ last \in {[op |-> "call", tokens |-> tokens, types |-> types, data |-> data,
                   flags |-> {}] :
                     tokens \in UNION {[1..k -> Tokens] : k \in 0..MaxSlice},
                     types \in UNION {[1..k -> {"NTHeartbeat", "NTMsgTooLarge"}] :
                                         k \in 0..MaxSlice},
                     data \in UNION {[1..k -> {"1", "2"}] : k \in 0..MaxSlice}}
    /\ threads = [th \in Threads |-> [pc |-> "idle"]]
    /\ woken = [c \in Clients |-> 0]

\* msg, err := NewNotificationsMessage(test.tokens, test.types, test.data)
NewNotificationsMessageCall ==
    /\ last.op = "call"
    /\ \E fresh \in Tokens :
          LET r == NewNotificationsMessage(last.tokens, last.types, last.data, fresh)
          IN  last' = [op |-> "NewNotificationsMessage", tokens |-> last.tokens,
                       types |-> last.types, data |-> last.data,
                       msg |-> r.msg, err |-> r.err, flags |-> {}]
    /\ UNCHANGED <<now, assertionsCache, negAssertionCache, pendingQueries,
                   pendingSignatures, out, crashed, threads, woken>>

NextNotifications == NewNotificationsMessageCall

SpecNotifications == InitNotifications /\ [][NextNotifications]_vars

---------------------------------------------------------------------------
(* rainsdig: sendQuery and the listener goroutine it starts.  threads holds *)
(* the position of either; last holds the token of the query, whether the  *)
(* query can be marshalled and what the connection delivers; out holds the *)
(* sections printed.  The channels done and ec are unbuffered: a send      *)
(* happens together with its receive in the select of sendQuery.           *)

\* what the connection delivers: a read error or a message
Responses ==
    {[kind |-> "error", text |-> e] : e \in {"failed to read tag: EOF", "other"}}
    \cup {[kind |-> "message", Token |-> t, Content |-> c] :
              t \in Tokens,
              c \in {<<>>, <<[kind |-> "Assertion"]>>}
                    \cup {<<[kind |-> "Notification", Token |-> n]>> : n \in Tokens}
                    \cup {<<[kind |-> "Assertion"], [kind |-> "Notification", Token |-> n]>> :
                              n \in Tokens}}

InitDig ==
    /\ now = 1
    /\ assertionsCache = <<>>
    /\ negAssertionCache = <<>>
    /\ pendingQueries = {}
    /\ pendingSignatures = {}
    /\ out = <<>>
    /\ crashed = FALSE
    /\ last \in {[op |-> "rainsdig", tok |-> t, marshals |-> m, response |-> r,
                   flags |-> {}] :
                     t \in Tokens, m \in BOOLEAN, r \in Responses}
    /\ threads = [sendQuery |-> [pc |-> "marshal"], listen |-> [pc |-> "unmarshal"]]
    /\ woken = [c \in Clients |-> 0]

\* sendQuery: writer.Marshal(&msg); on an error it returns and the deferred
\* conn.Close() runs
DigMarshal ==
    /\ ~crashed
    /\ threads.sendQuery.pc = "marshal"
    /\ threads' = [threads EXCEPT !.sendQuery =
                      IF last.marshals THEN [pc |-> "select"]
                      ELSE [pc |-> "returned", err |-> "failed to marshal message"]]
    /\ UNCHANGED <<now, assertionsCache, negAssertionCache, pendingQueries,
                   pendingSignatures, out, crashed, last, woken>>

\* listen up to its send on ec or done: Unmarshal fails when the connection
\* delivers an error or sendQuery has closed it; msg.Content[0] panics on a
\* message without content
DigListen ==
    /\ ~crashed
    /\ threads.listen.pc = "unmarshal"
    /\ LET msg == last.response
           closed == threads.sendQuery.pc = "returned"
       IN  IF closed \/ msg.kind = "error"
           THEN /\ threads' = [threads EXCEPT !.listen =
                       [pc |-> "send ec",
                        err |-> IF ~closed /\ msg.text = "failed to read tag: EOF"
                                THEN "connection has been closed"
                                ELSE "failed to unmarshal response"]]
                /\ UNCHANGED crashed
           ELSE IF msg.Token = last.tok
           THEN /\ threads' = [threads EXCEPT !.listen = [pc |-> "send done"]]
                /\ UNCHANGED crashed
           ELSE IF msg.Content = <<>>
           THEN /\ threads' = [threads EXCEPT !.listen = [pc |-> "panic"]]
                /\ crashed' = TRUE
           ELSE IF msg.Content[1].kind # "Notification" \/ msg.Content[1].Token # last.tok
           THEN /\ threads' = [threads EXCEPT !.listen =
                       [pc |-> "send ec", err |-> "token response mismatch"]]
                /\ UNCHANGED crashed
           ELSE /\ threads' = [threads EXCEPT !.listen = [pc |-> "send done"]]
                /\ UNCHANGED crashed
    /\ UNCHANGED <<now, assertionsCache, negAssertionCache, pendingQueries,
                   pendingSignatures, out, last, woken>>

\* the select of sendQuery receives from done, printing the sections, or
\* from ec; the listener's send completes and the listener returns
DigReceive ==
    /\ ~crashed
    /\ threads.sendQuery.pc = "select"
    /\ threads.listen.pc \in {"send done", "send ec"}
    /\ IF threads.listen.pc = "send done"
       THEN /\ out' = last.response.Content
            /\ threads' = [sendQuery |-> [pc |-> "returned", err |-> ""],
                           listen |-> [pc |-> "returned"]]
       ELSE /\ out' = out
            /\ threads' = [sendQuery |-> [pc |-> "returned", err |-> threads.listen.err],
                           listen |-> [pc |-> "returned"]]
    /\ UNCHANGED <<now, assertionsCache, negAssertionCache, pendingQueries,
                   pendingSignatures, crashed, last, woken>>

\* the select of sendQuery takes <-time.After(10 * time.Second)
DigTimeout ==
    /\ ~crashed
    /\ threads.sendQuery.pc = "select"
    /\ threads' = [threads EXCEPT !.sendQuery =
                      [pc |-> "returned", err |-> "timed out waiting for response"]]
    /\ UNCHANGED <<now, assertionsCache, negAssertionCache, pendingQueries,
                   pendingSignatures, out, crashed, last, woken>>

NextDig == DigMarshal \/ DigListen \/ DigReceive \/ DigTimeout

\* both goroutines are scheduled and the timer fires while the select waits
SpecDig ==
    /\ InitDig
    /\ [][NextDig]_vars
    /\ WF_vars(DigMarshal) /\ WF_vars(DigListen)
    /\ WF_vars(DigReceive) /\ WF_vars(DigTimeout)

---------------------------------------------------------------------------
(* EncodeMessage: a capnp list is a sequence of slots, each the zero value *)
(* until list.Set(i, ...) stores into it.                                  *)

OTCertInfo == 7
OTNextKey == 13

\* a slot of a capnp list that was allocated and never set
unsetSlot == [Type |-> 0, Value |-> [kind |-> "unset"]]

\* encodeSignatures from signature i on: a signature whose Data is not a
\* []byte ends the loop with an error, the earlier ones staying in list
RECURSIVE encodeSignaturesFrom(_, _, _)
encodeSignaturesFrom(signatures, i, list) ==
    IF i > Len(signatures) THEN [list |-> list, err |-> ""]
    ELSE IF signatures[i].Data.kind # "[]byte"
    THEN [list |-> list, err |-> "Unsupported signature data type"]
    ELSE encodeSignaturesFrom(signatures, i + 1,
                               [list EXCEPT ![i] = signatures[i]])

encodeSignatures(signatures) ==
    encodeSignaturesFrom(signatures, 1, [i \in 1..Len(signatures) |-> unsetSlot])

\* encodeObjects from object i on.  The cases OTName, OTCertInfo and
\* OTServiceInfo leave the loop body with continue, before list.Set(i, obj)
RECURSIVE encodeObjectsFrom(_, _, _)
encodeObjectsFrom(objects, i, list) ==
    IF i > Len(objects) THEN [list |-> list, err |-> ""]
    ELSE LET object == objects[i]
             next(l) == encodeObjectsFrom(objects, i + 1, l)
         IN  CASE object.Type = OTName ->
                    IF object.Value.kind = "NameObject" THEN next(list)
                    ELSE [list |-> list, err |-> "Type assertion failed"]
               [] object.Type \in {OTIP6Addr, OTIP4Addr} ->
                    next([list EXCEPT ![i] = object])
               [] object.Type = OTCertInfo ->
                    IF object.Value.kind = "CertificateObject" THEN next(list)
                    ELSE [list |-> list, err |-> "Type assertion failed"]
               [] object.Type = OTServiceInfo ->
                    IF object.Value.kind = "ServiceInfo" THEN next(list)
                    ELSE [list |-> list, err |-> "Type assertion failed"]
               [] OTHER -> [list |-> list, err |-> "Unsupported object type"]

encodeObjects(objects) ==
    encodeObjectsFrom(objects, 1, [i \in 1..Len(objects) |-> unsetSlot])

\* encodeAssertion: the results of encodeSignatures and encodeObjects are
\* not looked at
encodeAssertion(a) ==
    [ms |-> [kind |-> "Assertion", Context |-> a.Context,
             SubjectZone |-> a.SubjectZone, SubjectName |-> a.SubjectName,
             Signatures |-> encodeSignatures(a.Signatures).list,
             Content |-> encodeObjects(a.Content).list],
     err |-> ""]

RECURSIVE encodeContentFrom(_, _, _)
encodeContentFrom(content, i, list) ==
    IF i > Len(content) THEN [list |-> list, err |-> ""]
    ELSE IF content[i].kind # "Assertion"
    THEN [list |-> list, err |-> "Unsupported section type"]
    ELSE LET r == encodeAssertion(content[i])
         IN  IF r.err # "" THEN [list |-> list, err |-> r.err]
             ELSE encodeContentFrom(content, i + 1, [list EXCEPT ![i] = r.ms])

\* EncodeMessage returns (msg, nil) or (nil, err)
EncodeMessage(m) ==
    LET sigs == encodeSignatures(m.Signatures)
        content == encodeContentFrom(m.Content, 1,
                       [i \in 1..Len(m.Content) |-> [kind |-> "unset"]])
    IN  IF sigs.err # "" THEN [msg |-> [kind |-> "nil"], err |-> sigs.err]
        ELSE IF content.err # "" THEN [msg |-> [kind |-> "nil"], err |-> content.err]
        ELSE [msg |-> [kind |-> "message", Token |-> m.Token,
                       Signatures |-> sigs.list, Content |-> content.list],
              err |-> ""]

\* objects and signatures a message can carry
EncodeInputs ==
    [objects |->
        {[Type |-> OTName,
          Value |-> [kind |-> "NameObject", Name |-> Str_a, Types |-> <<OTIP4Addr>>]],
         [Type |-> OTName, Value |-> [kind |-> "string", s |-> Str_a]],
         [Type |-> OTIP4Addr, Value |-> [kind |-> "string", s |-> Str_a]],
         [Type |-> OTCertInfo, Value |-> [kind |-> "CertificateObject", Data |-> Str_a]],
         [Type |-> OTServiceInfo,
          Value |-> [kind |-> "ServiceInfo", Name |-> Str_a, Port |-> 1, Priority |-> 0]],
         [Type |-> OTNextKey, Value |-> [kind |-> "PublicKey"]]},
     signatures |->
        {<<>>, <<[Data |-> [kind |-> "[]byte"]]>>, <<[Data |-> [kind |-> "string"]]>>}]

InitEncode ==
    /\ now = 1
    /\ assertionsCache = <<>>
    /\ negAssertionCache = <<>>
    /\ pendingQueries = {}
    /\ pendingSignatures = {}
    /\ out = <<>>
    /\ crashed = FALSE
    /\ last \in {[op |-> "call",
                   m |-> [Token |-> 1, Signatures |-> ms, Content |-> c],
                   flags |-> {}] :
                     ms \in EncodeInputs.signatures,
                     c \in {<<>>, <<[kind |-> "Unsupported"]>>}
                           \cup {<<[kind |-> "Assertion", Context |-> GlobalContext,
                                    SubjectZone |-> Str_c, SubjectName |-> Str_a,
                                    Signatures |-> as, Content |-> objs]>> :
                                    as \in EncodeInputs.signatures,
                                    objs \in UNION {[1..k -> EncodeInputs.objects] :
                                                        k \in 0..MaxSlice}}}
    /\ threads = [th \in Threads |-> [pc |-> "idle"]]
    /\ woken = [c \in Clients |-> 0]

\* msg, err := EncodeMessage(m)
EncodeMessageCall ==
    /\ last.op = "call"
    /\ LET r == EncodeMessage(last.m)
       IN  last' = [op |-> "EncodeMessage", m |-> last.m, msg |-> r.msg,
                    err |-> r.err, flags |-> {}]
    /\ UNCHANGED <<now, assertionsCache, negAssertionCache, pendingQueries,
                   pendingSignatures, out, crashed, threads, woken>>

NextEncode == EncodeMessageCall

SpecEncode == InitEncode /\ [][NextEncode]_vars

---------------------------------------------------------------------------
(* Properties of the engine *)

MaxValidityOf(kind) ==
    CASE kind = "Assertion" -> MaxCacheAssertionValidity
      [] kind = "Shard" -> MaxCacheShardValidity
      [] kind = "Zone" -> MaxCacheZoneValidity

\* validFrom lies further ahead than the cache keeps a section of this kind
TooFar(section, t) == section.validFrom > t + MaxValidityOf(section.kind)

SectionsSent(o) == {i \in 1..Len(o) : o[i].kind = "section"}

QueriesSent(o) == {i \in 1..Len(o) : o[i].kind = "query"}

WaitersOf(pq, token) == {v \in pq : v.token = token}

\* q misses both caches in the current state
MissesBothCaches(q) ==
    LET zAn == getZoneAndName(q.Name)[1]
    IN  /\ ~assertionCacheGet(assertionsCache, q.Context, zAn.zone, zAn.name, q.Type,
                              ExpiredAssertionsOk \in q.Options, now).ok
        /\ ~negAssertionCacheGet(negAssertionCache, q.Context, zAn.zone, zAn.name).ok

\* C1: a section asserted under the outbound token of a forwarded query
\* reaches the waiting client tagged with the token of the client's query.
C1_AnswerCarriesClientToken ==
    last.op = "assert" =>
        \A i \in SectionsSent(out) : out[i].token = ClientToken(out[i].to)

\* C2: a query with CachedAnswersOnly is never forwarded and leaves the
\* pending query cache alone; on a miss in both caches its sender gets
\* NoAssertionAvail under the query's token.
C2_CachedAnswersOnlyNeverForwards ==
    [][(last'.op = "query" /\ CachedAnswersOnly \in last'.q.Options) =>
          /\ pendingQueries' = pendingQueries
          /\ QueriesSent(out') = {}
          /\ MissesBothCaches(last'.q) =>
                out' = <<[kind |-> "notification", to |-> last'.sender,
                          token |-> last'.q.Token, ntype |-> NoAssertionAvail]>>]_vars

C2_Witness ==
    /\ last.op = "query"
    /\ CachedAnswersOnly \in last.q.Options
    /\ "cachedonly" \in last.flags
    /\ Len(out) = 1 /\ out[1].kind = "notification"
    /\ pendingQueries # {}

\* C4: once handlePendingQueries(section, t) has returned, the pending
\* query cache holds nothing under t.
C4_NoEntryAfterHandle ==
    (last.op = "assert" /\ "handled" \in last.flags) =>
        pendingQueriesGetAllAndDelete(pendingQueries, last.token).values = {}

C4_Witness ==
    /\ last.op = "assert"
    /\ "handled" \in last.flags
    /\ SectionsSent(out) # {}
    /\ pendingQueries # {}

\* C8 as stated: every section that starts too far ahead is kept out of the
\* caches, the waiters of its token are removed and none of them is sent it.
C8_FarSectionPurges ==
    [][(last'.op = "assert" /\ TooFar(last'.section, now)) =>
          /\ assertionsCache' = assertionsCache
          /\ negAssertionCache' = negAssertionCache
          /\ WaitersOf(pendingQueries', last'.token) = {}
          /\ SectionsSent(out') = {}]_vars

\* C8 amended: the same for a section that has passed the consistency check;
\* no cache ever holds a section that starts too far ahead, and the waiters of
\* the zero token are removed when a contained section does.
C8_ConsistentFarSectionPurges ==
    [][/\ (last'.op = "assert" /\ "inconsistent" \notin last'.flags
           /\ TooFar(last'.section, now)) =>
              /\ assertionsCache' = assertionsCache
              /\ negAssertionCache' = negAssertionCache
              /\ WaitersOf(pendingQueries', last'.token) = {}
              /\ SectionsSent(out') = {}
       /\ \A i \in 1..Len(assertionsCache') :
              ~TooFar(assertionsCache'[i].value.section, now')
       /\ \A i \in 1..Len(negAssertionCache') :
              ~TooFar(negAssertionCache'[i].value.section, now')
       /\ (last'.op = "assert" /\ "inconsistent" \notin last'.flags
           /\ ~TooFar(last'.section, now) /\ last'.section.kind # "Assertion"
           /\ \E i \in 1..Len(last'.section.Content) :
                  TooFar(last'.section.Content[i], now)) =>
              WaitersOf(pendingQueries', ZeroToken) = {}]_vars

C8_Witness ==
    /\ last.op = "assert"
    /\ "inconsistent" \notin last.flags
    /\ TooFar(last.section, now)
    /\ "released" \in last.flags
    /\ last.section.kind = "Zone"
    /\ assertionsCache # <<>>

\* C9: the waiters released because the section's validity was refused are
\* each sent NoAssertionAvail.
C9_ReleasedWaitersNotified ==
    [][(last'.op = "assert" /\ "purged" \in last'.flags) =>
          \A v \in pendingQueries \ pendingQueries' :
              \E i \in 1..Len(out') :
                  /\ out'[i].kind = "notification"
                  /\ out'[i].to = v.connInfo
                  /\ out'[i].ntype = NoAssertionAvail]_vars

\* C10: a forwarded query the full pending query cache refused is answered
\* with a server error notification.
C10_OverflowNotifiesClient ==
    (last.op = "query" /\ "overflow" \in last.flags) =>
        \E i \in 1..Len(out) :
            /\ out[i].kind = "notification"
            /\ out[i].to = last.sender
            /\ out[i].ntype \in {UnspecServerErr, ServerNotCapable}

CacheEntries ==
    {assertionsCache[i].value : i \in 1..Len(assertionsCache)}
    \cup {negAssertionCache[i].value : i \in 1..Len(negAssertionCache)}

\* C5: a section the consistency check refuses changes neither cache.
C5_InconsistentLeavesCaches ==
    [][(last'.op = "assert" /\ ~passesConsistency(Current, last'.section)) =>
          /\ assertionsCache' = assertionsCache
          /\ negAssertionCache' = negAssertionCache]_vars

C5_Witness ==
    /\ last.op = "assert"
    /\ "inconsistent" \in last.flags
    /\ ~TooFar(last.section, now)
    /\ assertionsCache # <<>>
    /\ negAssertionCache # <<>>

\* C6: every cache entry ends no later than now plus the maximum cache
\* validity of its kind.
C6_ValidUntilCapped ==
    \A e \in CacheEntries : e.validUntil <= now + MaxValidityOf(e.section.kind)

C6_Witness ==
    /\ \E e \in CacheEntries :
          e.section.kind = "Assertion" /\ e.validUntil < e.section.validUntil
    /\ \E e \in CacheEntries :
          e.section.kind = "Shard" /\ e.validUntil < e.section.validUntil

\* C7: every cache entry has validFrom <= validUntil.
C7_ValidFromBeforeValidUntil ==
    \A e \in CacheEntries : e.validFrom <= e.validUntil

\* the waiters a thread holds after its fetch
Fetched(th) ==
    IF threads[th].pc = "answer" THEN Range(threads[th].values) ELSE {}

Handled(th) == threads[th].pc = "done" /\ "token" \in DOMAIN threads[th]

ExpiredWaitersOf(c) ==
    {v \in pendingQueries : v.connInfo = c /\ v.validUntil < now}

NotifiedNoAssertion(o, c) ==
    \E i \in 1..Len(o) :
        /\ o[i].kind = "notification"
        /\ o[i].to = c
        /\ o[i].ntype = NoAssertionAvail

\* C11: a waiter whose validUntil has passed and that no response has taken
\* out is, with the reaper scheduled fairly, removed from the pending query
\* cache by the reaper, which sends its client NoAssertionAvail.
C11_ExpiredWaiterReaped ==
    \A c \in Clients :
        (ExpiredWaitersOf(c) # {}) ~>
            (/\ ExpiredWaitersOf(c) = {}
             /\ last.op = "reap"
             /\ NotifiedNoAssertion(out, c))

C11_Witness ==
    /\ last.op = "reap"
    /\ NotifiedNoAssertion(out, "c1")
    /\ NotifiedNoAssertion(out, "c2")
    /\ \A v \in pendingQueries : v.validUntil >= now

\* the waiters under token whose deadline lies ahead of t
LiveWaitersOf(pq, token, t) == {v \in WaitersOf(pq, token) : v.validUntil > t}

\* C12: a section goes only to waiters whose validUntil is still ahead of
\* now; a waiter at or past its deadline is sent nothing, in the cache or not.
C12_NoAnswerAfterDeadline ==
    [][last'.op = "assert" =>
          /\ \A i \in SectionsSent(out') :
                \E v \in LiveWaitersOf(pendingQueries, last'.token, now) :
                    v.connInfo = out'[i].to
          /\ Cardinality(SectionsSent(out')) <=
                Cardinality(LiveWaitersOf(pendingQueries, last'.token, now))]_vars

C12_Witness ==
    /\ last.op = "assert"
    /\ "expired" \in last.flags
    /\ Cardinality(SectionsSent(out)) = 1

\* the section is the section of some entry of the cache of its kind
Cached(ac, nc, section) ==
    IF section.kind = "Assertion"
    THEN \E i \in 1..Len(ac) : ac[i].value.section = section
    ELSE \E i \in 1..Len(nc) : nc[i].value.section = section

\* C13 as stated, for a waiter that timed out and is still recorded: a
\* consistent section within the accepted window that arrives under the
\* waiter's token is in the cache of its kind afterwards and is sent to nobody.
C13_LateResponseCached ==
    [][(/\ last'.op = "assert"
        /\ passesConsistency(Current, last'.section)
        /\ ~TooFar(last'.section, now)
        /\ WaitersOf(pendingQueries, last'.token) # {}
        /\ LiveWaitersOf(pendingQueries, last'.token, now) = {}) =>
          /\ Cached(assertionsCache', negAssertionCache', last'.section)
          /\ SectionsSent(out') = {}]_vars

\* the cache of the section's kind is full of authoritative entries
CacheRefuses(ac, nc, section) ==
    IF section.kind = "Assertion"
    THEN Len(ac) >= AssertionCacheSize /\ \A i \in 1..Len(ac) : ac[i].authoritative
    ELSE Len(nc) >= NegativeAssertionCacheSize /\ \A i \in 1..Len(nc) : nc[i].authoritative

\* C13 amended: a consistent section within the accepted window that finds no
\* live waiter under its token, the waiter timed out or already reaped, is
\* sent to nobody and is in the cache of its kind afterwards, unless that
\* cache is full of authoritative entries and refuses the insert.
C13_LateResponseCachedIfRoom ==
    [][(/\ last'.op = "assert"
        /\ passesConsistency(Current, last'.section)
        /\ ~TooFar(last'.section, now)
        /\ LiveWaitersOf(pendingQueries, last'.token, now) = {}) =>
          /\ \/ Cached(assertionsCache', negAssertionCache', last'.section)
             \/ CacheRefuses(assertionsCache, negAssertionCache, last'.section)
          /\ SectionsSent(out') = {}]_vars

C13_Witness ==
    /\ last.op = "assert"
    /\ "expired" \in last.flags
    /\ SectionsSent(out) = {}
    /\ Cached(assertionsCache, negAssertionCache, last.section)
    /\ last.section.kind = "Assertion"

\* what the assertion cache returns for q in the current state
AssertionLookup(q) ==
    LET zAn == getZoneAndName(q.Name)[1]
    IN  assertionCacheGet(assertionsCache, q.Context, zAn.zone, zAn.name, q.Type,
                          ExpiredAssertionsOk \in q.Options, now)

\* what the negative cache returns for q in the current state
NegativeLookup(q) ==
    LET zAn == getZoneAndName(q.Name)[1]
    IN  negAssertionCacheGet(negAssertionCache, q.Context, zAn.zone, zAn.name)

\* C14: when the assertion cache has an entry for the query, query sends the
\* sender exactly one message, an assertion the cache returned, under the
\* query's token; it forwards nothing and leaves the pending queries alone.
C14_AssertionHitAnswered ==
    [][(last'.op = "query" /\ AssertionLookup(last'.q).ok) =>
          /\ Len(out') = 1
          /\ out'[1].kind = "section"
          /\ out'[1].to = last'.sender
          /\ out'[1].token = last'.q.Token
          /\ out'[1].section \in Range(AssertionLookup(last'.q).assertions)
          /\ pendingQueries' = pendingQueries]_vars

C14_Witness ==
    /\ last.op = "query"
    /\ "hit" \in last.flags
    /\ Len(out) = 1 /\ out[1].kind = "section"
    /\ CachedAnswersOnly \notin last.q.Options
    /\ assertionsCache # <<>>
    /\ negAssertionCache # <<>>
    /\ pendingQueries # {}

\* C15: query sends a shard or zone only when the assertion cache has no
\* entry for the query; on a hit in the negative cache alone the sender gets
\* that one shard or zone under the query's token, nothing is forwarded and
\* the pending queries stay as they are.
C15_NegativeHitAnswered ==
    [][last'.op = "query" =>
          /\ (\E i \in SectionsSent(out') : out'[i].section.kind # "Assertion") =>
                ~AssertionLookup(last'.q).ok
          /\ (~AssertionLookup(last'.q).ok /\ NegativeLookup(last'.q).ok) =>
                /\ out' = <<[kind |-> "section", to |-> last'.sender,
                             token |-> last'.q.Token,
                             section |-> NegativeLookup(last'.q).section]>>
                /\ pendingQueries' = pendingQueries]_vars

C15_Witness ==
    /\ last.op = "query"
    /\ "neghit" \in last.flags
    /\ Len(out) = 1 /\ out[1].kind = "section" /\ out[1].section.kind = "Shard"
    /\ assertionsCache # <<>>
    /\ pendingQueries # {}

\* the delegate of the zone of q is this server
DelegatedToSelf(q) ==
    getDelegationAddress(q.Context, getZoneAndName(q.Name)[1].zone) = serverConnInfo

\* C16: a query that misses both caches for a zone whose delegate is this
\* server is answered with NoAssertionAvail under the query's token and
\* nothing else: no pending query is recorded and no query goes out.
C16_AuthoritativeMissNotified ==
    [][(last'.op = "query" /\ MissesBothCaches(last'.q) /\ DelegatedToSelf(last'.q)) =>
          /\ out' = <<[kind |-> "notification", to |-> last'.sender,
                       token |-> last'.q.Token, ntype |-> NoAssertionAvail]>>
          /\ pendingQueries' = pendingQueries]_vars

C16_Witness ==
    /\ last.op = "query"
    /\ "self" \in last.flags
    /\ CachedAnswersOnly \notin last.q.Options
    /\ Len(out) = 1 /\ out[1].kind = "notification"
    /\ assertionsCache # <<>>
    /\ pendingQueries # {}

\* the forwarded queries among the messages o
ForwardedIn(o) == {o[i] : i \in QueriesSent(o)}

\* C17: a forwarded query goes out under the token of the client's query when
\* TokenTracing is set and under a generated token otherwise, and the waiter
\* of the client can be fetched from the pending queries under that token.
C17_WaiterUnderOutboundToken ==
    (last.op = "query" /\ "forwarded" \in last.flags) =>
        /\ Cardinality(ForwardedIn(out)) = 1
        /\ \A m \in ForwardedIn(out) :
              /\ TokenTracing \in last.q.Options => m.token = last.q.Token
              /\ m.token \in Tokens
              /\ \E v \in pendingQueriesGetAllAndDelete(pendingQueries, m.token).values :
                    v.connInfo = last.sender

\* the value of min(q.Expires, now + AssertionQueryValidity)
MinExpiry(q, t) == Min({q.Expires, t + AssertionQueryValidity})

\* C18: the forwarded query carries min(q.Expires, now + AssertionQueryValidity)
\* as its expiry, and so does every waiter the query adds.
C18_ValidUntilIsMin ==
    [][(last'.op = "query" /\ "forwarded" \in last'.flags) =>
          /\ \A m \in ForwardedIn(out') : m.expires = MinExpiry(last'.q, now)
          /\ \A v \in pendingQueries' \ pendingQueries :
                v.validUntil = MinExpiry(last'.q, now)]_vars

C18_Witness ==
    /\ last.op = "query"
    /\ "forwarded" \in last.flags
    /\ "overflow" \notin last.flags
    /\ last.q.Expires < now + AssertionQueryValidity
    /\ \E m \in ForwardedIn(out) : \E v \in WaitersOf(pendingQueries, m.token) :
          v.connInfo = last.sender /\ v.validUntil = last.q.Expires
    /\ \E v \in pendingQueries : v.validUntil = now + AssertionQueryValidity

\* the entries of the assertion cache under the key of query q
EntriesFor(q) ==
    LET zAn == getZoneAndName(q.Name)[1]
    IN  {i \in 1..Len(assertionsCache) :
            /\ assertionsCache[i].context = q.Context
            /\ assertionsCache[i].zone = zAn.zone
            /\ assertionsCache[i].name = zAn.name
            /\ assertionsCache[i].otype = q.Type}

\* C19: a query without ExpiredAssertionsOk that is answered from the
\* assertion cache is answered with the section of an entry whose validUntil
\* is not before now.
C19_NoExpiredAnswerUnasked ==
    (/\ last.op = "query"
     /\ "hit" \in last.flags
     /\ ExpiredAssertionsOk \notin last.q.Options) =>
        \E i \in EntriesFor(last.q) :
            /\ assertionsCache[i].value.section = out[1].section
            /\ assertionsCache[i].value.validUntil >= now

C19_Witness ==
    /\ last.op = "query"
    /\ "hit" \in last.flags
    /\ ExpiredAssertionsOk \notin last.q.Options
    /\ \E i \in EntriesFor(last.q) : assertionsCache[i].value.validUntil < now
    /\ \A i \in EntriesFor(last.q) :
          assertionsCache[i].value.section = out[1].section =>
             assertionsCache[i].value.validUntil >= now

\* with ExpiredAssertionsOk the answer may come from an expired entry
C19_ExpiredAnswerAsked ==
    /\ last.op = "query"
    /\ "hit" \in last.flags
    /\ ExpiredAssertionsOk \in last.q.Options
    /\ \A i \in EntriesFor(last.q) :
          assertionsCache[i].value.section = out[1].section =>
             assertionsCache[i].value.validUntil < now

\* the authoritative entries of a cache that have not expired at t
AuthoritativeUnexpired(cache, t) ==
    {cache[i] : i \in {j \in 1..Len(cache) :
                          cache[j].authoritative /\ cache[j].value.validUntil >= t}}

\* C20: what assert inserts as authoritative is stored as authoritative, and
\* no step takes an authoritative entry that has not expired out of the
\* assertion cache or the negative cache.
C20_AuthoritativeNeverEvicted ==
    [][/\ AuthoritativeUnexpired(assertionsCache, now) \subseteq Range(assertionsCache')
       /\ AuthoritativeUnexpired(negAssertionCache, now) \subseteq Range(negAssertionCache')
       /\ (last'.op = "assert" /\ last'.authoritative) =>
             \A e \in Range(assertionsCache') \ Range(assertionsCache) :
                 e.authoritative]_vars

C20_Witness ==
    /\ last.op = "assert"
    /\ ~last.authoritative
    /\ "evicted" \in last.flags
    /\ Len(assertionsCache) = AssertionCacheSize
    /\ AuthoritativeUnexpired(assertionsCache, now) # {}

\* C21: an assertion without content objects is refused: it is not cached,
\* nobody is sent it, and the server keeps running.
C21_EmptyAssertionRejected ==
    (/\ last.op = "assert"
     /\ last.section.kind = "Assertion"
     /\ last.section.Content = <<>>) =>
        /\ ~crashed
        /\ ~Cached(assertionsCache, negAssertionCache, last.section)
        /\ SectionsSent(out) = {}

\* a call of UpdateSectionValidity on a section that is not nil has returned
ValidityUpdated == last.op = "UpdateSectionValidity" /\ last.input.kind # "nil"

\* C22: on a fresh section of any kind UpdateSectionValidity leaves
\* validSince = min(max(pkeySince, sigSince), now + cap) and
\* validUntil = min(min(pkeyUntil, sigUntil), now + cap), cap being the cap of
\* the section's kind.
C22_ValidityIsCappedMinMax ==
    ValidityUpdated =>
        LET cap == CASE last.input.kind = "Assertion" -> last.maxVal.AssertionValidity
                     [] last.input.kind = "Shard" -> last.maxVal.ShardValidity
                     [] last.input.kind = "Zone" -> last.maxVal.ZoneValidity
        IN  /\ last.input.validSince =
                   Min({Max({last.pkeySince, last.sigSince}), now + cap})
            /\ last.input.validUntil =
                   Min({Min({last.pkeyUntil, last.sigUntil}), now + cap})

\* pkey = [now+2, now+4], sig = [now+1, now+3], cap = 1 has given [now+1, now+1]
C22_Witness ==
    /\ ValidityUpdated
    /\ last.pkeySince = now + 2 /\ last.pkeyUntil = now + 4
    /\ last.sigSince = now + 1 /\ last.sigUntil = now + 3
    /\ last.cap = 1
    /\ last.input.validSince = now + 1
    /\ last.input.validUntil = now + 1

C24_NilIsNoOp ==
    [][(last.op = "call" /\ last.input.kind = "nil") =>
          /\ ~crashed'
          /\ last'.input = last.input
          /\ UNCHANGED <<now, assertionsCache, negAssertionCache, pendingQueries,
                         pendingSignatures, out, threads, woken>>]_vars

\* the call on nil has returned
C24_Witness ==
    /\ last.op = "UpdateSectionValidity"
    /\ last.input.kind = "nil"
    /\ last.pkeySince > last.pkeyUntil
    /\ ~crashed

\* C25: CompareTo is a total order on objects: it returns a result,
\* a.CompareTo(b) = -b.CompareTo(a), it returns 0 only for objects of equal
\* Type and Value, and it is transitive.
C25_CompareToTotalOrder ==
    last.op = "CompareTo" =>
        /\ ~crashed
        /\ ~ObjectCompareTo(last.object, last.o).panics
        /\ last.result = -ObjectCompareTo(last.object, last.o).value
        /\ last.result = 0 => last.o = last.object
        /\ \A c \in Objects :
              (last.result <= 0 /\ ObjectCompareTo(last.object, c).value <= 0) =>
                  ObjectCompareTo(last.o, c).value <= 0

\* the children of a shard or zone whose validity starts too far ahead
RefusedChildren(sec, t) == {x \in Range(sec.Content) : TooFar(x, t)}

\* the sections inside a shard or zone that assert hands to a cache: its
\* children within the window and the children within the window of those
AcceptedWithin(sec, t) ==
    LET direct == {x \in Range(sec.Content) : ~TooFar(x, t)}
    IN  direct \cup UNION {{y \in Range(x.Content) : ~TooFar(y, t)} :
                              x \in {z \in direct : z.kind = "Shard"}}

\* C26: when a shard or zone within the window is asserted and one of its
\* children is refused for a validity too far ahead, the shard or zone is in
\* the negative cache afterwards and so is every other child within the
\* window in its cache, those before the refused child and those after it.
C26_RefusedChildLeavesSiblings ==
    (/\ last.op = "assert"
     /\ last.section.kind \in {"Shard", "Zone"}
     /\ "inconsistent" \notin last.flags
     /\ ~TooFar(last.section, now)
     /\ RefusedChildren(last.section, now) # {}) =>
        /\ ~crashed
        /\ Cached(assertionsCache, negAssertionCache, last.section)
        /\ \A x \in AcceptedWithin(last.section, now) :
              Cached(assertionsCache, negAssertionCache, x)
        /\ \A x \in RefusedChildren(last.section, now) :
              ~Cached(assertionsCache, negAssertionCache, x)

\* a shard whose second child of three is refused has been asserted
C26_Witness ==
    /\ last.op = "assert"
    /\ last.section = sMid
    /\ "inconsistent" \notin last.flags
    /\ Cached(assertionsCache, negAssertionCache, aOk)
    /\ Cached(assertionsCache, negAssertionCache, bOk)
    /\ Cached(assertionsCache, negAssertionCache, sMid)

\* the sections the two caches hold
SectionsCached(ac, nc) ==
    {ac[i].value.section : i \in 1..Len(ac)} \cup {nc[i].value.section : i \in 1..Len(nc)}

\* C27: a section that enters the assertion cache or the negative cache, as
\* the asserted section or as content of an asserted shard or zone, is
\* consistent with what the caches held when it was asserted.
C27_CachedOnlyIfConsistent ==
    [][last'.op = "assert" =>
          \A x \in SectionsCached(assertionsCache', negAssertionCache')
                      \ SectionsCached(assertionsCache, negAssertionCache) :
              passesConsistency(Current, x)]_vars

\* the section is an assertion with a delegation among its objects, or a
\* shard or zone with such an assertion inside
CarriesDelegation(section) ==
    LET delegates(a) == \E i \in 1..Len(a.Content) : a.Content[i].Type = OTDelegation
    IN  IF section.kind = "Assertion" THEN delegates(section)
        ELSE \E a \in ContainedAssertions(section) : delegates(a)

\* the sections blocked on the delegation of (context, zone)
BlockedOn(ps, context, zone) == {x \in ps : x.context = context /\ x.zone = zone}

\* C28: when assert accepts an assertion that carries a delegation, at any
\* position of its content, alone or inside a shard or zone, every section
\* blocked on its context and zone leaves the pending signature cache and is
\* put on the normal queue exactly once, with its own sender and token.
C28_DelegationWakesBlocked ==
    [][(/\ last'.op = "assert"
        /\ passesConsistency(Current, last'.section)
        /\ ~TooFar(last'.section, now)
        /\ CarriesDelegation(last'.section)) =>
          /\ BlockedOn(pendingSignatures', last'.section.Context,
                       last'.section.SubjectZone) = {}
          /\ \A x \in BlockedOn(pendingSignatures, last'.section.Context,
                                 last'.section.SubjectZone) :
                Cardinality({i \in 1..Len(out') :
                    /\ out'[i].kind = "enqueue"
                    /\ out'[i].section = x.section
                    /\ out'[i].to = x.sender
                    /\ out'[i].token = x.token}) = 1]_vars

\* the positions of the dots of name n
DotsOf(n) == {i \in 1..Len(n) : n[i] = "."}

\* C29: getZoneAndName(n) returns one pair; its name is n up to the first dot
\* and its zone what follows that dot, so that name + "." + zone = n; for n
\* without a dot, the empty name included, name = n and zone is empty.
C29_FirstLabelAndRest ==
    last.op = "getZoneAndName" =>
        /\ Len(last.result) = 1
        /\ ~crashed
        /\ IF DotsOf(last.name) = {}
           THEN /\ last.result[1].name = last.name
                /\ last.result[1].zone = <<>>
           ELSE /\ last.result[1].name = SubSeq(last.name, 1, Min(DotsOf(last.name)) - 1)
                /\ last.result[1].zone = SubSeq(last.name, Min(DotsOf(last.name)) + 1,
                                                Len(last.name))
                /\ last.result[1].name \o <<".">> \o last.result[1].zone = last.name

\* a name of three labels has been split
C29_Witness ==
    /\ last.op = "getZoneAndName"
    /\ last.name = <<"a", ".", "c", ".", "a">>
    /\ last.result = <<[zone |-> <<"c", ".", "a">>, name |-> <<"a">>]>>

\* C30: NewNotificationsMessage returns the error "input slices have not the
\* same length" when the three slices are not of one length; otherwise the
\* i-th section of the message is the notification of tokens[i], types[i]
\* and data[i], for every i, in order.
C30_NotificationsInOrder ==
    last.op = "NewNotificationsMessage" =>
        IF Len(last.tokens) = Len(last.types) /\ Len(last.types) = Len(last.data)
        THEN /\ last.err = ""
             /\ Len(last.msg.Content) = Len(last.tokens)
             /\ \A i \in 1..Len(last.tokens) :
                   /\ last.msg.Content[i].Token = last.tokens[i]
                   /\ last.msg.Content[i].Type = last.types[i]
                   /\ last.msg.Content[i].Data = last.data[i]
        ELSE last.err = "input slices have not the same length"

\* the first row of the test: two tokens, Heartbeat and MsgTooLarge, "1" and "2"
C30_Witness ==
    /\ last.op = "NewNotificationsMessage"
    /\ last.tokens = <<0, 1>>
    /\ last.types = <<"NTHeartbeat", "NTMsgTooLarge">>
    /\ last.data = <<"1", "2">>
    /\ last.err = ""
    /\ last.msg.Content[2] = [Token |-> 1, Type |-> "NTMsgTooLarge", Data |-> "2"]

\* C31: query adds the waiter of a forwarded query before it emits the
\* query: whenever a query goroutine goes on from pendingQueries.Add to
\* sendQuery, the pending queries hold a waiter of its client under the
\* token the query is about to carry.
C31_WaiterRecordedBeforeSend ==
    [][\A th \in QueryThreads :
          (threads[th].pc = "add" /\ threads'[th].pc = "send") =>
              \E v \in pendingQueries' :
                  /\ v.token = threads'[th].token
                  /\ v.connInfo = ClientOf(th)]_vars

\* C32: a call of query ends in one outcome: one section sent to the sender,
\* or one NoAssertionAvail notification sent to the sender, or one forwarded
\* query with the waiter of the sender recorded under its token; a reply
\* leaves the pending queries as they were.
C32_OneOutcomePerQuery ==
    [][last'.op = "query" =>
          /\ Len(out') = 1
          /\ \/ /\ out'[1].kind = "section"
                /\ out'[1].to = last'.sender
                /\ pendingQueries' = pendingQueries
             \/ /\ out'[1].kind = "notification"
                /\ out'[1].ntype = NoAssertionAvail
                /\ out'[1].to = last'.sender
                /\ pendingQueries' = pendingQueries
             \/ /\ out'[1].kind = "query"
                /\ \E v \in pendingQueries' :
                      /\ v.connInfo = last'.sender
                      /\ v.token = out'[1].token
                      /\ pendingQueries' \ pendingQueries \subseteq {v}]_vars

\* the notifications the reaper has sent to client c
ReapedNotices(c) ==
    {i \in 1..Len(out) : out[i].kind = "notification" /\ out[i].to = c}

C34_InconsistentLeavesWaiters ==
    [][(last'.op = "assert" /\ ~passesConsistency(Current, last'.section)) =>
          /\ pendingQueries' = pendingQueries
          /\ out' = <<>>]_vars

\* an inconsistent section arrived under a token a waiter is recorded under
C34_Witness ==
    /\ last.op = "assert"
    /\ "inconsistent" \in last.flags
    /\ WaitersOf(pendingQueries, last.token) # {}
    /\ out = <<>>

\* C35: assert of a section that arrived under token T takes waiters out of
\* the pending queries under T only and answers under T only, also when the
\* section is a shard or zone whose content is processed under the zero token.
C35_OnlyOwnTokenTouched ==
    [][last'.op = "assert" =>
          /\ \A v \in pendingQueries \ pendingQueries' : v.token = last'.token
          /\ \A i \in SectionsSent(out') : out'[i].token = last'.token]_vars

\* C36: an assertion is in the assertion cache under one key, its context,
\* zone, name and the type of its first object; a query answered with an
\* assertion asks for the type of that assertion's first object, so a query
\* for the type of a later object is not answered with it.
C36_KeyedByFirstObject ==
    /\ \A i \in 1..Len(assertionsCache) :
          LET e == assertionsCache[i]
          IN  /\ e.context = e.value.section.Context
              /\ e.zone = e.value.section.SubjectZone
              /\ e.name = e.value.section.SubjectName
              /\ e.otype = e.value.section.Content[1].Type
              /\ \A j \in 1..Len(assertionsCache) :
                    assertionsCache[j].value.section = e.value.section => j = i
    /\ last.op = "query" =>
          \A i \in SectionsSent(out) :
              out[i].section.kind = "Assertion" =>
                  out[i].section.Content[1].Type = last.q.Type

\* an assertion of an IP4 and an IP6 address for a.c is cached and a query
\* for the IP6 address of a.c got no section
C36_Witness ==
    /\ last.op = "query"
    /\ last.q.Type = OTIP6Addr
    /\ last.q.Name = Name_a_c
    /\ SectionsSent(out) = {}
    /\ \E i \in 1..Len(assertionsCache) :
          /\ assertionsCache[i].name = Str_a
          /\ Len(assertionsCache[i].value.section.Content) = 2
          /\ assertionsCache[i].value.section.Content[2].Type = OTIP6Addr
          /\ assertionsCache[i].value.validUntil >= now

\* the message carries the token of the query, or its first section is a
\* notification that does
TokenMatches(msg, tok) ==
    \/ msg.Token = tok
    \/ /\ msg.Content # <<>>
       /\ msg.Content[1].kind = "Notification"
       /\ msg.Content[1].Token = tok

\* C37: the listener of rainsdig hands a response to done exactly when the
\* token of the message, or of the notification that is its first section,
\* is the token of the query; every other response ends in the token
\* mismatch error and is not printed; a response without content does not
\* make the check fail.
C37_ListenerAcceptsOwnToken ==
    (last.op = "rainsdig" /\ last.response.kind = "message"
     /\ threads.listen.pc # "unmarshal"
     /\ ~(threads.listen.pc = "send ec" /\ threads.listen.err = "failed to unmarshal response")) =>
        /\ ~crashed
        /\ IF TokenMatches(last.response, last.tok)
           THEN threads.listen.pc \in {"send done", "returned"}
                /\ (threads.listen.pc = "returned" => threads.sendQuery.err = "")
           ELSE /\ out = <<>>
                /\ threads.listen.pc = "send ec" =>
                      threads.listen.err = "token response mismatch"
                /\ threads.listen.pc = "returned" =>
                      threads.sendQuery.err = "token response mismatch"

AssertionsOf(m) == {i \in 1..Len(m.Content) : m.Content[i].kind = "Assertion"}

\* an object, a signature the encoder has a case for
CanEncodeObject(o) ==
    \/ o.Type \in {OTIP6Addr, OTIP4Addr}
    \/ o.Type = OTName /\ o.Value.kind = "NameObject"
    \/ o.Type = OTCertInfo /\ o.Value.kind = "CertificateObject"
    \/ o.Type = OTServiceInfo /\ o.Value.kind = "ServiceInfo"

CanEncodeSignature(sig) == sig.Data.kind = "[]byte"

\* C39: a message returned by EncodeMessage holds, for every assertion, every
\* object of its content at the index the object has in the assertion,
\* whatever the type of the object; when an object or a signature of a
\* contained assertion cannot be encoded, EncodeMessage returns an error and
\* no message.
C39_EveryObjectEncodedOrError ==
    last.op = "EncodeMessage" =>
        /\ (\E i \in AssertionsOf(last.m) :
                \/ \E j \in 1..Len(last.m.Content[i].Content) :
                       ~CanEncodeObject(last.m.Content[i].Content[j])
                \/ \E j \in 1..Len(last.m.Content[i].Signatures) :
                       ~CanEncodeSignature(last.m.Content[i].Signatures[j]))
             => (last.err # "" /\ last.msg.kind = "nil")
        /\ last.err = "" =>
             \A i \in AssertionsOf(last.m) :
                \A j \in 1..Len(last.m.Content[i].Content) :
                    last.msg.Content[i].Content[j] = last.m.Content[i].Content[j]

=============================================================================
